---- MODULE Spec2Model ----
(***************************************************************************)
(* Deadhand daemon: the session telemetry hub.                             *)
(*   - State Registry    packages/daemon/src/config.ts (createInstanceRegistry) *)
(*   - Durable Log       packages/daemon/src/persistence.ts                *)
(*   - Connection Hub    packages/daemon/src/websocket.ts                  *)
(* and its two peers:                                                      *)
(*   - producer client   packages/extension/src/daemon-client.ts           *)
(*   - dashboard hook    useWebSocket (src/unnamed/part_000)               *)
(* The daemon is single threaded: every handler below is one atomic step.  *)
(***************************************************************************)
EXTENDS Integers, Sequences, FiniteSets, TLC

(***************************************************************************)
(* Bounds of the model.                                                    *)
(***************************************************************************)
\* total number of records the data directory can hold (all log files together)
MaxLogRecords == 3
\* number of process restarts
MaxRestarts == 1
\* number of control requests forwarded to a producer
MaxRequests == 2
\* the granularity of time: one Tick of the clock, in milliseconds
TickMs == 30000
\* number of sockets a peer of the daemon opens
MaxSockets == 4

(***************************************************************************)
(* Program constants and input domains.                                    *)
(***************************************************************************)
\* config.ts:50 sets 10000; the window is scaled down so that eviction is
\* reachable, the code only ever compares the list length against it.
MAX_EVENTS_PER_SESSION == 2

\* Identifiers are strings; session ids are modelled as tuples of characters
\* so that getTranscriptFile's character-wise sanitising can be computed.
InstanceIds == {"i1", "i2"}
SessionIds == {<<"a">>, <<"b", ".">>}
\* sourceId as submitted: "" stands for a falsy sourceId (absent or empty),
\* which `if (data.sourceId)` treats as carrying no source identifier.
SourceIds == {"x", "y"}
SubmittedSourceIds == SourceIds \cup {""}

\* the cursor of a read without ?after= (event ids start at 1)
NoCursor == 0
Titles == {"t1", "t2"}
SafeChars == {"a", "b", "_", "-"}

\* websocket.ts:61,79,97: a pending request older than this is timed out
REQUEST_TIMEOUT_MS == 30000
\* websocket.ts:112: the period of the sweep
SWEEP_INTERVAL_MS == 30000

\* consumer and producer sockets, consumer-chosen request ids
ClientConns == {"c1", "c2"}
ExtConns == {"e1", "e2"}
\* a socket whose peer is on another host; those of ExtConns are local
RemoteConns == {"x1"}
\* request.socket.remoteAddress of a producer socket
LoopbackAddresses == {"127.0.0.1", "::1", "::ffff:127.0.0.1"}
AddressesOf(ws) == IF ws \in RemoteConns THEN {"192.168.1.20"} ELSE LoopbackAddresses
RequestIds == {"r1", "r2"}
\* the token of the connection URL; "" stands for a missing token
Tokens == {"", "tok", "bad"}
currentToken == "tok"

VARIABLES
  \* ---- State Registry (config.ts:59-64)
  instances,       \* Map<string, Instance>: the registered instance ids, in insertion order
  sessions,        \* Map<string, Session>
  sessionOrder,    \* the insertion order of the keys of sessions
  transcripts,     \* Map<string, TranscriptEvent[]>
  seenSourceIds,   \* Map<string, Set<string>>
  \* ---- Durable Log (persistence.ts:38-39)
  sessionsFile,    \* sessions.jsonl: the sequence of lifecycle records
  transcriptFiles, \* transcripts/<safeId>.jsonl: file name -> sequence of events
  writable,        \* environment: appendFileSync on the data directory succeeds
  \* ---- environment and observation
  nextEventId,     \* stand-in for nanoid(): a fresh id per accepted event
  restarts,        \* number of restarts so far
  notified,        \* listener callbacks invoked by the last operation, in order
  ret,             \* the last Registry call and what it returned
  acceptedSrc,     \* history: <<session, sourceId>> pairs accepted by this Registry
  \* ---- Connection Hub (websocket.ts:50-54)
  running,         \* the daemon process is alive: no exception reached the event loop
  wsState,         \* per socket: "new" (not connected yet), "open", "closing", "closed"
  closeCode,       \* per socket: the code the daemon closed it with, 0 if it did not
  listening,       \* the sockets on which the hub registered its message/close handlers
  clients,         \* Set<ClientConnection>, in insertion order
  extensions,      \* Set<ExtensionConnection>, in insertion order
  pendingMessageRequests,
  pendingEnabledModelsRequests,
  pendingCreateChatRequests,   \* Map<requestId, request>, in insertion order
  sinceSweep,      \* milliseconds since the sweep timer last fired
  sent,            \* the ws.send calls of the last step, in order: [to, msg]
  nextSerial,      \* history: a serial number per forwarded control request
  outcome,         \* history: per serial, the results the hub sent for that request
  \* ---- the daemon's peers
  daemonClient,    \* the producer's client (extension/src/daemon-client.ts:49-57)
  dashboard        \* the dashboard's useWebSocket hook (useWebSocket.ts:18-24)

registryVars == <<instances, sessions, sessionOrder, transcripts, seenSourceIds>>
logVars == <<sessionsFile, transcriptFiles, writable>>
pendingVars == <<pendingMessageRequests, pendingEnabledModelsRequests,
                 pendingCreateChatRequests>>
connVars == <<running, wsState, closeCode, listening, clients, extensions>>
hubVars == <<running, wsState, closeCode, listening, clients, extensions, pendingMessageRequests,
             pendingEnabledModelsRequests, pendingCreateChatRequests, sinceSweep, sent,
             nextSerial, outcome>>
vars == <<instances, sessions, sessionOrder, transcripts, seenSourceIds, sessionsFile,
          transcriptFiles, writable, nextEventId, restarts, notified, ret, acceptedSrc,
          running, wsState, closeCode, listening, clients, extensions, pendingMessageRequests,
          pendingEnabledModelsRequests, pendingCreateChatRequests, sinceSweep, sent,
          nextSerial, outcome, daemonClient, dashboard>>
peerVars == <<daemonClient, dashboard>>

(***************************************************************************)
(* Helpers for Map<K, V>: a function whose domain is the set of keys.      *)
(***************************************************************************)
MapSet(m, k, v) == [x \in DOMAIN m \cup {k} |-> IF x = k THEN v ELSE m[x]]

MapGet(m, k, default) == IF k \in DOMAIN m THEN m[k] ELSE default

EmptyMap == [x \in {} |-> x]

\* membership in an insertion-ordered collection
InSeq(x, seq) == \E i \in DOMAIN seq : seq[i] = x

\* Object.assign(target, updates)
ObjectAssign(target, updates) ==
  [f \in DOMAIN target \cup DOMAIN updates |->
     IF f \in DOMAIN updates THEN updates[f] ELSE target[f]]

(***************************************************************************)
(* Durable Log (persistence.ts).                                           *)
(***************************************************************************)
\* sessionId.replace(/[^a-zA-Z0-9_-]/g, '_'); the file is <safeId>.jsonl
getTranscriptFile(sessionId) ==
  [i \in DOMAIN sessionId |-> IF sessionId[i] \in SafeChars THEN sessionId[i] ELSE "_"]

\* A file is the sequence of its lines. A line is the record it serialises, or
\* one of two lines that JSON.parse rejects: the fragment a process killed in the
\* middle of an append left at the end of the file, without its newline, and
\* such a fragment with the record of the next append written right behind it.
TornLine == [corrupt |-> "torn"]

JoinedLine == [corrupt |-> "joined"]

\* JSON.parse(line) returns
parses(line) == "corrupt" \notin DOMAIN line

\* a reader that gives up the whole file at the first line it cannot parse
readLines_abort(lines) ==
  IF \E i \in DOMAIN lines : ~parses(lines[i]) THEN <<>> ELSE lines

\* readLines: the lines that parse, in order; the others are logged and skipped
readLines(lines) == SelectSeq(lines, parses)

\* appendLine: JSON.stringify(data) + '\n' goes to the end of the file
appendLine(lines, data) ==
  IF lines # <<>> /\ lines[Len(lines)] = TornLine
  THEN [lines EXCEPT ![Len(lines)] = JoinedLine]
  ELSE Append(lines, data)

\* appendLine on sessions.jsonl
persistSessionStart(session) ==
  sessionsFile' = appendLine(sessionsFile, [action |-> "start", session |-> session])

persistSessionUpdate(sessionId, updates) ==
  sessionsFile' = appendLine(sessionsFile,
                   [action |-> "update", sessionId |-> sessionId, updates |-> updates])

persistSessionEnd(sessionId) ==
  sessionsFile' = appendLine(sessionsFile, [action |-> "end", sessionId |-> sessionId])

\* appendLine on the session's transcript file
persistTranscriptEvent(event) ==
  transcriptFiles' = MapSet(transcriptFiles, getTranscriptFile(event.sessionId),
     appendLine(MapGet(transcriptFiles, getTranscriptFile(event.sessionId), <<>>), event))

\* the switch of loadSessions applied to one record
applySessionRecord(m, record) ==
  CASE record.action = "start" ->
         MapSet(m, record.session.sessionId, record.session)
    [] record.action = "update" ->
         IF record.sessionId \in DOMAIN m
         THEN MapSet(m, record.sessionId, ObjectAssign(m[record.sessionId], record.updates))
         ELSE m
    [] record.action = "end" ->
         IF record.sessionId \in DOMAIN m
         THEN MapSet(m, record.sessionId, [m[record.sessionId] EXCEPT !.status = "idle"])
         ELSE m

RECURSIVE replaySessions(_, _)
replaySessions(m, records) ==
  IF records = <<>> THEN m
  ELSE replaySessions(applySessionRecord(m, Head(records)), Tail(records))

loadSessions == replaySessions(EmptyMap, readLines(sessionsFile))

\* the insertion order of the Map loadSessions builds: first start record first
RECURSIVE replayOrder(_, _)
replayOrder(order, records) ==
  IF records = <<>> THEN order
  ELSE LET r == Head(records)
           fresh == /\ r.action = "start"
                    /\ ~ \E i \in DOMAIN order : order[i] = r.session.sessionId
       IN replayOrder(IF fresh THEN Append(order, r.session.sessionId) ELSE order,
                      Tail(records))

loadSessionOrder == replayOrder(<<>>, readLines(sessionsFile))

\* readLines of the file named <sessionId>.jsonl
loadTranscriptEvents(sessionId) == readLines(MapGet(transcriptFiles, sessionId, <<>>))

\* one entry per file of the directory, keyed by the file name without .jsonl
loadAllTranscriptEvents ==
  LET files == {f \in DOMAIN transcriptFiles : Len(loadTranscriptEvents(f)) > 0}
  IN [f \in files |-> loadTranscriptEvents(f)]

\* the number of records in the data directory
RECURSIVE SumLen(_, _)
SumLen(files, names) ==
  IF names = {} THEN 0
  ELSE LET n == CHOOSE x \in names : TRUE
       IN Len(files[n]) + SumLen(files, names \ {n})

LogRecords == Len(sessionsFile) + SumLen(transcriptFiles, DOMAIN transcriptFiles)

\* new Date(): a logical clock that advances with every record written; the
\* Registry stores a time only in Session.createdAt
Now == LogRecords + 1

(***************************************************************************)
(* The listeners the hub registers on the Registry (websocket.ts:114-156).  *)
(* The Registry calls them synchronously, inside the mutating operation.    *)
(***************************************************************************)
\* ws.send(data) on every connection of targets, in order
SendAll(targets, message) ==
  [i \in DOMAIN targets |-> [to |-> targets[i].ws, msg |-> message]]

\* a broadcast that ignores the global subscription
broadcastToInstanceSubscribers_all(message) ==
  SendAll(SelectSeq(clients, LAMBDA c : c.authenticated), message)

broadcastToInstanceSubscribers(message) ==
  SendAll(SelectSeq(clients, LAMBDA c : c.authenticated /\ c.subscribedInstances), message)

broadcastToSessionSubscribers(sessionId, message) ==
  SendAll(SelectSeq(clients,
                    LAMBDA c : c.authenticated /\ sessionId \in c.subscribedSessions),
          message)

\* registry.onInstanceChange listener
onInstanceChange(n) ==
  broadcastToInstanceSubscribers(
    IF n.type = "disconnect"
    THEN [type |-> "instance_disconnect", instanceId |-> n.instanceId]
    ELSE [type |-> "instance_update", instanceId |-> n.instanceId])

\* registry.onSessionChange listener
onSessionChange(n) ==
  LET message == [type |-> "session_update", session |-> n.session]
  IN broadcastToSessionSubscribers(n.session.sessionId, message)
       \o broadcastToInstanceSubscribers(message)

\* a listener that sends the oldest retained event of the session
onTranscriptEvent_oldest(n) ==
  broadcastToSessionSubscribers(n.event.sessionId,
                                [type |-> "transcript_event",
                                 event |-> Head(transcripts'[n.event.sessionId])])

\* registry.onTranscriptEvent listener
onTranscriptEvent(n) ==
  broadcastToSessionSubscribers(n.event.sessionId,
                                [type |-> "transcript_event", event |-> n.event])

\* the sends of the hub's listeners for the callbacks of one Registry call
RECURSIVE hubListeners(_)
hubListeners(calls) ==
  IF calls = <<>> THEN <<>>
  ELSE LET n == Head(calls)
       IN (CASE n.listener = "instance" -> onInstanceChange(n)
             [] n.listener = "session" -> onSessionChange(n)
             [] n.listener = "transcript" -> onTranscriptEvent(n))
          \o hubListeners(Tail(calls))

\* the peer of the socket has left; the hub keeps the connection in its set
\* until the close event of the socket runs
gone(ws) == wsState[ws] # "open"

\* ws.send on a socket that is not open either throws or drops the frame,
\* depending on the build of the ws library
SendThrows ==
  IF \E i \in DOMAIN clients : gone(clients[i].ws) THEN BOOLEAN ELSE {FALSE}

\* the listener called with n throws: one of its sends is on a socket that is gone
\* (the broadcast loops have no try/catch, websocket.ts:140-156)
listenerThrows(n, throws) ==
  throws /\ \E i \in DOMAIN hubListeners(<<n>>) : gone(hubListeners(<<n>>)[i].to)

\* the sends that returned before the first one that throws
RECURSIVE untilThrow(_)
untilThrow(sends) ==
  IF sends = <<>> \/ gone(Head(sends).to) THEN <<>>
  ELSE <<Head(sends)>> \o untilThrow(Tail(sends))

\* the exception a Registry call ended with: "" (it returned), "listener", "append"
Threw(r) == IF "threw" \in DOMAIN r THEN r.threw ELSE ""

\* the sends of the hub's listeners during a Registry call that ended as r
hubSends(calls, r) ==
  IF Threw(r) = "listener" THEN untilThrow(hubListeners(calls)) ELSE hubListeners(calls)

(***************************************************************************)
(* State Registry (config.ts).                                             *)
(***************************************************************************)
\* the sourceIds of a list of events, falsy ones skipped
SourceIdsOf(events) ==
  {events[i].sourceId : i \in {j \in DOMAIN events : events[j].sourceId # ""}}

\* a retention that drops the newest events instead of the oldest
boundedRetention_pop(events) ==
  IF Len(events) > MAX_EVENTS_PER_SESSION
  THEN SubSeq(events, 1, MAX_EVENTS_PER_SESSION) ELSE events

\* while (events.length > MAX_EVENTS_PER_SESSION) events.shift()
RECURSIVE boundedRetention(_)
boundedRetention(events) ==
  IF Len(events) > MAX_EVENTS_PER_SESSION THEN boundedRetention(Tail(events)) ELSE events

\* a read that misses the newest event
getTranscriptEvents_stale(sessionId) ==
  LET events == MapGet(transcripts, sessionId, <<>>)
  IN IF events = <<>> THEN <<>> ELSE SubSeq(events, 1, Len(events) - 1)

getTranscriptEvents(sessionId) == MapGet(transcripts, sessionId, <<>>)

\* events.findIndex((e) => e.eventId === afterEventId): the first index, 0 for -1
findIndex(events, afterEventId) ==
  LET hits == {k \in DOMAIN events : events[k].eventId = afterEventId}
  IN IF hits = {} THEN 0 ELSE CHOOSE k \in hits : \A j \in hits : k <= j

\* a cursor that returns the event of the cursor too
getTranscriptEventsAfter_inclusive(sessionId, afterEventId) ==
  LET events == MapGet(transcripts, sessionId, <<>>)
      idx == findIndex(events, afterEventId)
  IN IF afterEventId = NoCursor \/ idx = 0 THEN events
     ELSE SubSeq(events, idx, Len(events))

\* getTranscriptEvents(sessionId, afterEventId); a cursor that is absent or the
\* empty string is falsy
getTranscriptEventsAfter(sessionId, afterEventId) ==
  LET events == MapGet(transcripts, sessionId, <<>>)
      idx == findIndex(events, afterEventId)
  IN IF afterEventId = NoCursor THEN events
     ELSE IF idx = 0 THEN events
     ELSE SubSeq(events, idx + 1, Len(events))

\* a call of getTranscriptEvents, as GET /api/v1/sessions/:sessionId?after= makes
readTranscriptEvents(sessionId, afterEventId) ==
  /\ ret' = [op |-> "getTranscriptEvents", sessionId |-> sessionId,
             afterEventId |-> afterEventId,
             result |-> getTranscriptEventsAfter(sessionId, afterEventId)]
  /\ notified' = <<>>
  /\ UNCHANGED <<registryVars, logVars, nextEventId, acceptedSrc>>

\* a dedup check that scans the in-memory window instead of the seen set
isDuplicate_window(data) ==
  /\ data.sourceId # ""
  /\ data.sourceId \in SourceIdsOf(MapGet(transcripts, data.sessionId, <<>>))

\* config.ts:212-218: the submission carries a sourceId already seen for the session
isDuplicate(data) ==
  /\ data.sourceId # ""
  /\ data.sessionId \in DOMAIN seenSourceIds
  /\ data.sourceId \in seenSourceIds[data.sessionId]

\* an insertion at the head of the list
pushEvent_front(events, event) == <<event>> \o events

\* events.push(event)
pushEvent(events, event) == Append(events, event)

\* an addTranscriptEvent that calls the listeners before it persists the event
addTranscriptEvent_notifyFirst(data) ==
  IF isDuplicate(data)
  THEN \* duplicate: return null
       /\ ret' = [op |-> "addTranscriptEvent", sessionId |-> data.sessionId,
                  sourceId |-> data.sourceId, result |-> <<>>, threw |-> ""]
       /\ notified' = <<>>
       /\ UNCHANGED <<registryVars, logVars, nextEventId, acceptedSrc>>
  ELSE LET event == [eventId |-> nextEventId, sessionId |-> data.sessionId,
                     sourceId |-> data.sourceId]
           events == pushEvent(MapGet(transcripts, data.sessionId, <<>>), event)
           call == [listener |-> "transcript", event |-> event]
           R(t) == [op |-> "addTranscriptEvent", sessionId |-> data.sessionId,
                    sourceId |-> data.sourceId, result |-> <<event>>, threw |-> t]
       IN /\ LogRecords < MaxLogRecords
          \* as many event ids as records: bounds the events whose append fails
          /\ nextEventId <= MaxLogRecords
          /\ nextEventId' = nextEventId + 1
          /\ transcripts' = MapSet(transcripts, data.sessionId, boundedRetention(events))
          /\ seenSourceIds' =
               IF event.sourceId # ""
               THEN MapSet(seenSourceIds, data.sessionId,
                      MapGet(seenSourceIds, data.sessionId, {}) \cup {event.sourceId})
               ELSE seenSourceIds
          /\ IF writable
             THEN \* the record is appended, then the listeners run
                  /\ persistTranscriptEvent(event)
                  /\ notified' = <<call>>
                  /\ \E throws \in SendThrows :
                       ret' = R(IF listenerThrows(call, throws) THEN "listener" ELSE "")
             ELSE \* the listeners have run when the append throws
                  /\ UNCHANGED transcriptFiles
                  /\ notified' = <<call>>
                  /\ ret' = R("append")
          /\ acceptedSrc' = IF data.sourceId # ""
                            THEN acceptedSrc \cup {<<data.sessionId, data.sourceId>>}
                            ELSE acceptedSrc
          /\ UNCHANGED <<instances, sessions, sessionOrder, sessionsFile, writable>>

\* persistence.ts:52-55 appendLine has no try/catch: when appendFileSync throws
\* the exception leaves the Registry call and nothing is written
addTranscriptEvent(data) ==
  IF isDuplicate(data)
  THEN \* duplicate: return null
       /\ ret' = [op |-> "addTranscriptEvent", sessionId |-> data.sessionId,
                  sourceId |-> data.sourceId, result |-> <<>>, threw |-> ""]
       /\ notified' = <<>>
       /\ UNCHANGED <<registryVars, logVars, nextEventId, acceptedSrc>>
  ELSE LET event == [eventId |-> nextEventId, sessionId |-> data.sessionId,
                     sourceId |-> data.sourceId]
           events == pushEvent(MapGet(transcripts, data.sessionId, <<>>), event)
           call == [listener |-> "transcript", event |-> event]
           R(t) == [op |-> "addTranscriptEvent", sessionId |-> data.sessionId,
                    sourceId |-> data.sourceId, result |-> <<event>>, threw |-> t]
       IN /\ LogRecords < MaxLogRecords
          \* as many event ids as records: bounds the events whose append fails
          /\ nextEventId <= MaxLogRecords
          /\ nextEventId' = nextEventId + 1
          /\ transcripts' = MapSet(transcripts, data.sessionId, boundedRetention(events))
          /\ seenSourceIds' =
               IF event.sourceId # ""
               THEN MapSet(seenSourceIds, data.sessionId,
                      MapGet(seenSourceIds, data.sessionId, {}) \cup {event.sourceId})
               ELSE seenSourceIds
          /\ IF writable
             THEN \* the record is appended, then the listeners run
                  /\ persistTranscriptEvent(event)
                  /\ notified' = <<call>>
                  /\ \E throws \in SendThrows :
                       ret' = R(IF listenerThrows(call, throws) THEN "listener" ELSE "")
             ELSE \* the append throws: the listeners are not reached
                  /\ UNCHANGED transcriptFiles
                  /\ notified' = <<>>
                  /\ ret' = R("append")
          /\ acceptedSrc' = IF data.sourceId # ""
                            THEN acceptedSrc \cup {<<data.sessionId, data.sourceId>>}
                            ELSE acceptedSrc
          /\ UNCHANGED <<instances, sessions, sessionOrder, sessionsFile, writable>>

\* listeners.forEach((cb) => cb(...)) has no try/catch: a listener that throws
\* ends the Registry call at that point
registerInstance(data) ==
  LET call == [listener |-> "instance", type |-> "update", instanceId |-> data.instanceId]
  IN /\ instances' = IF InSeq(data.instanceId, instances) THEN instances
                    ELSE Append(instances, data.instanceId)
     /\ notified' = <<call>>
     /\ \E throws \in SendThrows :
          ret' = [op |-> "registerInstance",
                  threw |-> IF listenerThrows(call, throws) THEN "listener" ELSE ""]
     /\ UNCHANGED <<sessions, sessionOrder, transcripts, seenSourceIds, logVars,
                    nextEventId, acceptedSrc>>

updateHeartbeat(instanceId) ==
  LET call == [listener |-> "instance", type |-> "update", instanceId |-> instanceId]
  IN /\ IF InSeq(instanceId, instances)
        THEN /\ notified' = <<call>>
             /\ \E throws \in SendThrows :
                  ret' = [op |-> "updateHeartbeat",
                          threw |-> IF listenerThrows(call, throws) THEN "listener" ELSE ""]
        ELSE /\ notified' = <<>>
             /\ ret' = [op |-> "updateHeartbeat", threw |-> ""]
     /\ UNCHANGED <<registryVars, logVars, nextEventId, acceptedSrc>>

\* a loop that skips the test of the session's status
ownedActive_anyStatus(instanceId) ==
  SelectSeq(sessionOrder, LAMBDA id : sessions[id].instanceId = instanceId)

\* the sessions removeInstance turns idle, in Map iteration order
ownedActive(instanceId) ==
  SelectSeq(sessionOrder,
            LAMBDA id : sessions[id].instanceId = instanceId /\ sessions[id].status = "active")

\* appendLine of one end record per session of ids, in order
RECURSIVE endRecords(_, _)
endRecords(lines, ids) ==
  IF ids = <<>> THEN lines
  ELSE endRecords(appendLine(lines, [action |-> "end", sessionId |-> Head(ids)]),
                  Tail(ids))

\* per owned active session: status idle, the listeners, the end record; then the
\* disconnect listeners. An exception ends the loop at the session it occurs in.
removeInstance(instanceId) ==
  IF InSeq(instanceId, instances)
  THEN \E throws \in SendThrows :
       LET ended == ownedActive(instanceId)
           idle(id) == [sessions[id] EXCEPT !.status = "idle"]
           calls == [i \in DOMAIN ended |->
                       [listener |-> "session", type |-> "end", session |-> idle(ended[i])]]
           disconnect == [listener |-> "instance", type |-> "disconnect",
                          instanceId |-> instanceId]
           failing == {i \in DOMAIN ended : listenerThrows(calls[i], throws) \/ ~writable}
           abortAt == IF failing = {} THEN 0
                      ELSE CHOOSE i \in failing : \A j \in failing : i <= j
           reached == IF abortAt = 0 THEN ended ELSE SubSeq(ended, 1, abortAt)
           persisted == IF abortAt = 0 THEN ended ELSE SubSeq(ended, 1, abortAt - 1)
       IN \* the budget is tested before the call, whose records are written together
          /\ ended # <<>> => LogRecords < MaxLogRecords
          /\ instances' = SelectSeq(instances, LAMBDA i : i # instanceId)
          /\ sessions' = [id \in DOMAIN sessions |->
                            IF InSeq(id, reached) THEN idle(id) ELSE sessions[id]]
          /\ sessionsFile' = endRecords(sessionsFile, persisted)
          /\ notified' = SubSeq(calls, 1, Len(reached))
                           \o (IF abortAt = 0 THEN <<disconnect>> ELSE <<>>)
          /\ ret' = [op |-> "removeInstance",
                     threw |-> CASE abortAt # 0 /\ listenerThrows(calls[abortAt], throws)
                                      -> "listener"
                                 [] abortAt # 0 /\ ~listenerThrows(calls[abortAt], throws)
                                      -> "append"
                                 [] abortAt = 0 /\ listenerThrows(disconnect, throws)
                                      -> "listener"
                                 [] OTHER -> ""]
          /\ UNCHANGED <<sessionOrder, transcripts, seenSourceIds, transcriptFiles,
                         writable, nextEventId, acceptedSrc>>
  ELSE /\ notified' = <<>>
       /\ ret' = [op |-> "removeInstance", threw |-> ""]
       /\ UNCHANGED <<registryVars, logVars, nextEventId, acceptedSrc>>

\* a reactivation that forgets to reassign the owner
reactivate_keepOwner(existing, instanceId) == [existing EXCEPT !.status = "active"]

\* existing.status = 'active'; existing.instanceId = instanceId
reactivate(existing, instanceId) ==
  [existing EXCEPT !.status = "active", !.instanceId = instanceId]

\* the tail of a session operation: the listeners run, then the record is
\* appended to sessions.jsonl; r is what the call ends with when it returns
notifyThenPersist(call, persist, r) ==
  /\ notified' = <<call>>
  /\ \E throws \in SendThrows :
       CASE listenerThrows(call, throws) ->
              ret' = [r EXCEPT !.threw = "listener"] /\ UNCHANGED sessionsFile
         [] ~listenerThrows(call, throws) /\ ~writable ->
              ret' = [r EXCEPT !.threw = "append"] /\ UNCHANGED sessionsFile
         [] OTHER ->
              persist /\ ret' = r

\* data: Omit<Session, 'createdAt'>
startSession(instanceId, data) ==
  /\ LogRecords < MaxLogRecords
  /\ IF data.sessionId \in DOMAIN sessions
     THEN \* reactivate the existing session
          LET existing == reactivate(sessions[data.sessionId], instanceId)
              R == [op |-> "startSession", sessionId |-> data.sessionId,
                    instanceId |-> instanceId, result |-> existing, threw |-> ""]
          IN /\ sessions' = MapSet(sessions, data.sessionId, existing)
             /\ notifyThenPersist(
                  [listener |-> "session", type |-> "update", session |-> existing],
                  persistSessionUpdate(data.sessionId,
                                       [status |-> "active", instanceId |-> instanceId]),
                  R)
             /\ UNCHANGED <<sessionOrder, transcripts>>
     ELSE LET session == [sessionId |-> data.sessionId, title |-> data.title,
                          status |-> data.status, instanceId |-> instanceId,
                          createdAt |-> Now]
              R == [op |-> "startSession", sessionId |-> data.sessionId,
                    instanceId |-> instanceId, result |-> session, threw |-> ""]
          IN /\ sessions' = MapSet(sessions, data.sessionId, session)
             /\ sessionOrder' = Append(sessionOrder, data.sessionId)
             /\ transcripts' = MapSet(transcripts, data.sessionId, <<>>)
             /\ notifyThenPersist(
                  [listener |-> "session", type |-> "start", session |-> session],
                  persistSessionStart(session), R)
  /\ UNCHANGED <<instances, seenSourceIds, transcriptFiles, writable, nextEventId,
                 acceptedSrc>>

updateSession(sessionId, updates) ==
  IF sessionId \in DOMAIN sessions
  THEN LET session == ObjectAssign(sessions[sessionId], updates)
           R == [op |-> "updateSession", threw |-> ""]
       IN /\ LogRecords < MaxLogRecords
          /\ sessions' = MapSet(sessions, sessionId, session)
          /\ notifyThenPersist(
               [listener |-> "session", type |-> "update", session |-> session],
               persistSessionUpdate(sessionId, updates), R)
          /\ UNCHANGED <<instances, sessionOrder, transcripts, seenSourceIds,
                         transcriptFiles, writable, nextEventId, acceptedSrc>>
  ELSE /\ notified' = <<>>
       /\ ret' = [op |-> "updateSession", threw |-> ""]
       /\ UNCHANGED <<registryVars, logVars, nextEventId, acceptedSrc>>

endSession(sessionId) ==
  IF sessionId \in DOMAIN sessions
  THEN LET session == [sessions[sessionId] EXCEPT !.status = "idle"]
           R == [op |-> "endSession", threw |-> ""]
       IN /\ LogRecords < MaxLogRecords
          /\ sessions' = MapSet(sessions, sessionId, session)
          /\ notifyThenPersist(
               [listener |-> "session", type |-> "end", session |-> session],
               persistSessionEnd(sessionId), R)
          /\ UNCHANGED <<instances, sessionOrder, transcripts, seenSourceIds,
                         transcriptFiles, writable, nextEventId, acceptedSrc>>
  ELSE /\ notified' = <<>>
       /\ ret' = [op |-> "endSession", threw |-> ""]
       /\ UNCHANGED <<registryVars, logVars, nextEventId, acceptedSrc>>

\* createInstanceRegistry: the state a new Registry builds from the log
createInstanceRegistry ==
  LET loadedTranscripts == loadAllTranscriptEvents
      withIds == {k \in DOMAIN loadedTranscripts : SourceIdsOf(loadedTranscripts[k]) # {}}
  IN /\ instances' = <<>>
     /\ sessions' = loadSessions
     /\ sessionOrder' = loadSessionOrder
     /\ transcripts' = loadedTranscripts
     /\ seenSourceIds' = [k \in withIds |-> SourceIdsOf(loadedTranscripts[k])]

(***************************************************************************)
(* Connection Hub (websocket.ts).                                          *)
(***************************************************************************)
\* a validation that accepts every token that is present
validateToken_present(token) == token # ""

\* auth.ts:54-63: a constant-time string comparison with the stored token
validateToken(token) == token # "" /\ token = currentToken

\* a Registry call that does nothing (or a handler that calls none)
registryIdle(op) ==
  /\ ret' = op
  /\ notified' = <<>>
  /\ UNCHANGED <<registryVars, logVars, nextEventId, acceptedSrc>>

\* the ClientConnection / ExtensionConnection object of a socket
clientOf(ws) == CHOOSE c \in {clients[i] : i \in DOMAIN clients} : c.ws = ws

connOf(ws) == CHOOSE e \in {extensions[i] : i \in DOMAIN extensions} : e.ws = ws

\* clients with the object of socket ws replaced by c
withClient(ws, c) ==
  [i \in DOMAIN clients |-> IF clients[i].ws = ws THEN c ELSE clients[i]]

handleClientConnection(ws, token) ==
  /\ running
  /\ wsState[ws] = "new"
  /\ IF ~validateToken(token)
     THEN /\ sent' = <<[to |-> ws,
                        msg |-> [type |-> "error", message |-> "Invalid or missing token"]]>>
          /\ wsState' = [wsState EXCEPT ![ws] = "closing"]
          /\ closeCode' = [closeCode EXCEPT ![ws] = 4001]
          /\ UNCHANGED <<clients, listening>>
     ELSE /\ clients' = Append(clients, [ws |-> ws, authenticated |-> TRUE,
                                         subscribedInstances |-> FALSE,
                                         subscribedSessions |-> {}])
          /\ listening' = listening \cup {ws}
          /\ wsState' = [wsState EXCEPT ![ws] = "open"]
          /\ sent' = <<>>
          /\ UNCHANGED closeCode
  /\ registryIdle([op |-> "handleClientConnection", ws |-> ws, token |-> token])
  /\ UNCHANGED <<running, extensions, pendingVars, sinceSweep, nextSerial, outcome>>

\* the socket is gone; ws.on('close') runs if it was registered
clientClose(ws) ==
  /\ wsState[ws] \in {"open", "closing"}
  /\ wsState' = [wsState EXCEPT ![ws] = "closed"]
  /\ clients' = IF ws \in listening
                THEN SelectSeq(clients, LAMBDA c : c.ws # ws) ELSE clients
  /\ listening' = listening \ {ws}
  /\ sent' = <<>>
  /\ registryIdle([op |-> "close"])
  /\ UNCHANGED <<running, closeCode, extensions, pendingVars, sinceSweep, nextSerial,
                 outcome>>

\* a frame arrives on a socket that has no message handler
unheardMessage(ws) ==
  /\ wsState[ws] \in {"open", "closing"}
  /\ ws \notin listening
  /\ sent' = <<>>
  /\ registryIdle([op |-> "unheard"])
  /\ UNCHANGED <<connVars, pendingVars, sinceSweep, nextSerial, outcome>>

\* a handler that forwards the message to the producers instead of refusing it
sendMessageReply_forward(ws, message) ==
  [i \in DOMAIN extensions |->
     [to |-> extensions[i].ws,
      msg |-> [type |-> "send_message_request", sessionId |-> message.sessionId]]]

\* case 'send_message': the fixed refusal, sent to the requester
sendMessageReply(ws, message) ==
  <<[to |-> ws,
     msg |-> [type |-> "send_message_result", sessionId |-> message.sessionId,
              success |-> FALSE,
              error |-> "Send-message to an existing session is temporarily disabled. Use New Chat instead."]]>>

\* handleClientMessage, the subscription, ping and send_message cases
handleClientMessage(ws, message) ==
  /\ wsState[ws] = "open"
  /\ ws \in listening
  /\ LET client == clientOf(ws)
     IN CASE message.type = "subscribe_instances" ->
               /\ clients' = withClient(ws, [client EXCEPT !.subscribedInstances = TRUE])
               /\ sent' = [i \in DOMAIN instances |->
                             [to |-> ws, msg |-> [type |-> "instance_update",
                                                  instanceId |-> instances[i]]]]
                          \o [i \in DOMAIN sessionOrder |->
                                [to |-> ws, msg |-> [type |-> "session_update",
                                                     session |-> sessions[sessionOrder[i]]]]]
          [] message.type = "unsubscribe_instances" ->
               /\ clients' = withClient(ws, [client EXCEPT !.subscribedInstances = FALSE])
               /\ sent' = <<>>
          [] message.type = "subscribe_session" ->
               /\ clients' = withClient(ws,
                    [client EXCEPT !.subscribedSessions = @ \cup {message.sessionId}])
               /\ sent' = LET events == getTranscriptEvents(message.sessionId)
                          IN [i \in DOMAIN events |->
                                [to |-> ws, msg |-> [type |-> "transcript_event",
                                                     event |-> events[i]]]]
          [] message.type = "unsubscribe_session" ->
               /\ clients' = withClient(ws,
                    [client EXCEPT !.subscribedSessions = @ \ {message.sessionId}])
               /\ sent' = <<>>
          [] message.type = "ping" ->
               /\ sent' = <<[to |-> ws, msg |-> [type |-> "pong"]]>>
               /\ UNCHANGED clients
          [] message.type = "send_message" ->
               /\ sent' = sendMessageReply(ws, message)
               /\ UNCHANGED clients
  /\ registryIdle([op |-> "handleClientMessage", type |-> message.type])
  /\ UNCHANGED <<running, wsState, closeCode, listening, extensions, pendingVars, sinceSweep,
                 nextSerial, outcome>>

(* Pending requests: a Map<requestId, request> kept in insertion order.     *)
pendingHas(map, requestId) == \E i \in DOMAIN map : map[i].requestId = requestId

pendingGet(map, requestId) ==
  map[CHOOSE i \in DOMAIN map : map[i].requestId = requestId]

pendingSet(map, request) ==
  IF pendingHas(map, request.requestId)
  THEN [i \in DOMAIN map |->
          IF map[i].requestId = request.requestId THEN request ELSE map[i]]
  ELSE Append(map, request)

\* a delete that leaves the record in the map
pendingDelete_keep(map, requestId) == map

pendingDelete(map, requestId) == SelectSeq(map, LAMBDA r : r.requestId # requestId)

ControlKinds == {"get_enabled_models", "create_chat"}

RequestType(kind) ==
  IF kind = "create_chat" THEN "create_chat_request" ELSE "get_enabled_models_request"

ResultType(kind) ==
  IF kind = "create_chat" THEN "create_chat_result" ELSE "enabled_models_result"

\* the pending map of a kind of control request
pendingOf(kind) ==
  IF kind = "create_chat" THEN pendingCreateChatRequests ELSE pendingEnabledModelsRequests

\* the pending map of kind becomes map, the other one stays
pendingBecomes(kind, map) ==
  IF kind = "create_chat"
  THEN pendingCreateChatRequests' = map /\ UNCHANGED pendingEnabledModelsRequests
  ELSE pendingEnabledModelsRequests' = map /\ UNCHANGED pendingCreateChatRequests

\* a lookup that takes any producer connection
targetExtension_any(targetInstanceId) == extensions

\* for (const ext of extensions) if (ext.instanceId === targetInstanceId) ...
targetExtension(targetInstanceId) ==
  SelectSeq(extensions, LAMBDA ext : ext.instanceId = targetInstanceId)

\* targetExtension.ws.send on a producer socket that is no longer open throws
\* or drops the frame, depending on the build of the ws library
ForwardThrows(ws) == IF gone(ws) THEN BOOLEAN ELSE {FALSE}

\* handleClientMessage, cases get_enabled_models and create_chat
controlRequest(ws, kind, targetInstanceId, requestId) ==
  /\ wsState[ws] = "open"
  /\ ws \in listening
  /\ IF targetExtension(targetInstanceId) = <<>>
     THEN /\ sent' = <<[to |-> ws,
                        msg |-> [type |-> ResultType(kind), requestId |-> requestId,
                                 success |-> FALSE,
                                 error |-> "Extension not connected for this instance"]]>>
          /\ UNCHANGED <<pendingEnabledModelsRequests, pendingCreateChatRequests,
                         nextSerial>>
          /\ registryIdle([op |-> "controlRequest", ws |-> ws, type |-> kind,
                           instanceId |-> targetInstanceId, requestId |-> requestId])
     ELSE \E throws \in ForwardThrows(Head(targetExtension(targetInstanceId)).ws) :
            LET request == [clientWs |-> ws, instanceId |-> targetInstanceId,
                            requestId |-> requestId, age |-> 0, serial |-> nextSerial]
            IN IF throws
               THEN \* catch: the record just set is deleted, the requester is told
                    /\ pendingBecomes(kind,
                         pendingDelete(pendingSet(pendingOf(kind), request), requestId))
                    /\ UNCHANGED nextSerial
                    /\ sent' = <<[to |-> ws,
                                  msg |-> [type |-> ResultType(kind),
                                           requestId |-> requestId, success |-> FALSE,
                                           error |-> "Failed to forward to extension"]]>>
                    /\ registryIdle([op |-> "controlRequest", ws |-> ws, type |-> kind,
                                     instanceId |-> targetInstanceId,
                                     requestId |-> requestId, threw |-> "send"])
               ELSE /\ nextSerial <= MaxRequests
                    /\ pendingBecomes(kind, pendingSet(pendingOf(kind), request))
                    /\ nextSerial' = nextSerial + 1
                    /\ sent' = <<[to |-> Head(targetExtension(targetInstanceId)).ws,
                                  msg |-> [type |-> RequestType(kind),
                                           requestId |-> requestId,
                                           instanceId |-> targetInstanceId]]>>
                    /\ registryIdle([op |-> "controlRequest", ws |-> ws, type |-> kind,
                                     instanceId |-> targetInstanceId,
                                     requestId |-> requestId])
  /\ UNCHANGED <<connVars, pendingMessageRequests, sinceSweep, outcome>>

\* The text of a frame is the JSON text of a value ([json |-> value]) or text
\* that is no JSON ([raw |-> text]); a value is a message or the value null.
Null == [null |-> TRUE]

\* a parser that makes an empty message of what it cannot read
JSON_parse_lenient(data) ==
  [threw |-> FALSE, value |-> IF "json" \in DOMAIN data THEN data.json ELSE [type |-> ""]]

\* JSON.parse(data.toString()): the value, or a SyntaxError
JSON_parse(data) ==
  IF "json" \in DOMAIN data THEN [threw |-> FALSE, value |-> data.json]
  ELSE [threw |-> TRUE]

\* the message types with a case in the switch of handleClientMessage
SubscriptionTypes ==
  {"subscribe_instances", "unsubscribe_instances", "subscribe_session",
   "unsubscribe_session", "ping", "send_message"}

\* ws.on('message') of a consumer socket: JSON.parse and handleClientMessage in
\* one try block, whose catch sends the error; reading message.type of null
\* throws as well, and a type without a case falls through the switch
clientMessage(ws, data) ==
  /\ wsState[ws] = "open"
  /\ ws \in listening
  /\ LET parsed == JSON_parse(data)
     IN IF parsed.threw \/ parsed.value = Null
        THEN /\ sent' = <<[to |-> ws,
                           msg |-> [type |-> "error", message |-> "Invalid message format"]]>>
             /\ registryIdle([op |-> "clientMessage", ws |-> ws, data |-> data])
             /\ UNCHANGED <<connVars, pendingVars, sinceSweep, nextSerial, outcome>>
        ELSE CASE parsed.value.type \in ControlKinds ->
                    controlRequest(ws, parsed.value.type, parsed.value.instanceId,
                                   parsed.value.requestId)
               [] parsed.value.type \in SubscriptionTypes ->
                    handleClientMessage(ws, parsed.value)
               [] OTHER ->
                    /\ sent' = <<>>
                    /\ registryIdle([op |-> "clientMessage", ws |-> ws, data |-> data])
                    /\ UNCHANGED <<connVars, pendingVars, sinceSweep, nextSerial, outcome>>

\* handleExtensionMessage, cases enabled_models_result and create_chat_result
controlResult(ws, kind, requestId, success) ==
  /\ wsState[ws] = "open"
  /\ ws \in listening
  /\ IF pendingHas(pendingOf(kind), requestId)
     THEN LET pending == pendingGet(pendingOf(kind), requestId)
          IN /\ pendingBecomes(kind, pendingDelete(pendingOf(kind), requestId))
             /\ sent' = <<[to |-> pending.clientWs,
                           msg |-> [type |-> ResultType(kind), requestId |-> requestId,
                                    success |-> success,
                                    error |-> IF success THEN "" ELSE "failed"]]>>
             /\ outcome' = [outcome EXCEPT ![pending.serial] = Append(@, "reply")]
     ELSE /\ sent' = <<>>
          /\ UNCHANGED <<pendingEnabledModelsRequests, pendingCreateChatRequests, outcome>>
  /\ registryIdle([op |-> "controlResult", type |-> kind, requestId |-> requestId])
  /\ UNCHANGED <<connVars, pendingMessageRequests, sinceSweep, nextSerial>>

\* handleExtensionMessage, case send_message_result
sendMessageResult(ws, requestId, sessionId, success) ==
  /\ wsState[ws] = "open"
  /\ ws \in listening
  /\ IF pendingHas(pendingMessageRequests, requestId)
     THEN /\ pendingMessageRequests' = pendingDelete(pendingMessageRequests, requestId)
          /\ sent' = <<[to |-> pendingGet(pendingMessageRequests, requestId).clientWs,
                        msg |-> [type |-> "send_message_result", sessionId |-> sessionId,
                                 success |-> success,
                                 error |-> IF success THEN "" ELSE "failed"]]>>
     ELSE /\ sent' = <<>>
          /\ UNCHANGED pendingMessageRequests
  /\ registryIdle([op |-> "sendMessageResult"])
  /\ UNCHANGED <<connVars, pendingEnabledModelsRequests, pendingCreateChatRequests,
                 sinceSweep, nextSerial, outcome>>

\* a comparison with >= where the code has >
timedOut_eager(request) == request.age >= REQUEST_TIMEOUT_MS

\* now - request.timestamp > 30000
timedOut(request) == request.age > REQUEST_TIMEOUT_MS

\* a loop that sends the failure and forgets the delete
unexpired_all(map) == map

\* what one loop of the sweep leaves in its map
unexpired(map) == SelectSeq(map, LAMBDA r : ~timedOut(r))

\* the failure results one loop of the sweep sends
timeoutResults(map, type) ==
  LET old == SelectSeq(map, timedOut)
  IN [i \in DOMAIN old |->
        [to |-> old[i].clientWs,
         msg |-> [type |-> type, requestId |-> old[i].requestId, success |-> FALSE,
                  error |-> "Request timed out"]]]

\* the failure results of the sweep's first loop: they name the session
messageTimeoutResults(map) ==
  LET old == SelectSeq(map, timedOut)
  IN [i \in DOMAIN old |->
        [to |-> old[i].clientWs,
         msg |-> [type |-> "send_message_result", sessionId |-> old[i].sessionId,
                  success |-> FALSE, error |-> "Request timed out"]]]

\* the setInterval callback
sweep ==
  /\ running
  /\ sinceSweep >= SWEEP_INTERVAL_MS
  /\ sinceSweep' = 0
  /\ pendingMessageRequests' = unexpired(pendingMessageRequests)
  /\ pendingEnabledModelsRequests' = unexpired(pendingEnabledModelsRequests)
  /\ pendingCreateChatRequests' = unexpired(pendingCreateChatRequests)
  /\ sent' = messageTimeoutResults(pendingMessageRequests)
               \o timeoutResults(pendingEnabledModelsRequests, "enabled_models_result")
               \o timeoutResults(pendingCreateChatRequests, "create_chat_result")
  /\ outcome' =
       [n \in DOMAIN outcome |->
          IF \E kind \in ControlKinds : \E i \in DOMAIN pendingOf(kind) :
               pendingOf(kind)[i].serial = n /\ timedOut(pendingOf(kind)[i])
          THEN Append(outcome[n], "timeout") ELSE outcome[n]]
  /\ registryIdle([op |-> "sweep"])
  /\ UNCHANGED <<connVars, nextSerial>>

\* Date.now() advances by TickMs; the age of a request is capped once timed out
older(map) ==
  [i \in DOMAIN map |-> IF timedOut(map[i]) THEN map[i]
                        ELSE [map[i] EXCEPT !.age = @ + TickMs]]

tick ==
  /\ sinceSweep < SWEEP_INTERVAL_MS
  /\ sinceSweep' = sinceSweep + TickMs
  /\ pendingMessageRequests' = older(pendingMessageRequests)
  /\ pendingEnabledModelsRequests' = older(pendingEnabledModelsRequests)
  /\ pendingCreateChatRequests' = older(pendingCreateChatRequests)
  /\ sent' = <<>>
  /\ registryIdle([op |-> "tick"])
  /\ UNCHANGED <<connVars, nextSerial, outcome>>

handleExtensionConnection(ws) ==
  /\ running
  /\ wsState[ws] = "new"
  /\ extensions' = Append(extensions, [ws |-> ws, instanceId |-> ""])
  /\ listening' = listening \cup {ws}
  /\ wsState' = [wsState EXCEPT ![ws] = "open"]
  /\ sent' = <<>>
  /\ registryIdle([op |-> "handleExtensionConnection"])
  /\ UNCHANGED <<running, closeCode, clients, pendingVars, sinceSweep, nextSerial, outcome>>

\* an origin test that lets every address pass
isLoopback_any(remoteAddress) == TRUE

\* server.ts:147: the three spellings of the loopback address
isLoopback(remoteAddress) == remoteAddress \in LoopbackAddresses

\* server.ts:144-153: the /ws/extension route
extensionRoute(ws, remoteAddress) ==
  IF ~isLoopback(remoteAddress)
  THEN /\ running
       /\ wsState[ws] = "new"
       /\ wsState' = [wsState EXCEPT ![ws] = "closing"]
       /\ closeCode' = [closeCode EXCEPT ![ws] = 4003]
       /\ sent' = <<>>
       /\ registryIdle([op |-> "extensionRoute"])
       /\ UNCHANGED <<running, listening, clients, extensions, pendingVars, sinceSweep,
                      nextSerial, outcome>>
  ELSE handleExtensionConnection(ws)

\* extensions with the instanceId of the connection of socket ws set
withInstanceId(ws, instanceId) ==
  [i \in DOMAIN extensions |->
     IF extensions[i].ws = ws THEN [extensions[i] EXCEPT !.instanceId = instanceId]
     ELSE extensions[i]]

\* handleExtensionMessage, the cases routed to the Registry; the message handler
\* of the socket catches what the call throws (websocket.ts:463-470)
handleExtensionMessage(ws, message) ==
  /\ wsState[ws] = "open"
  /\ ws \in listening
  /\ LET conn == connOf(ws)
     IN CASE message.type = "register" ->
               /\ registerInstance(message.instance)
               /\ extensions' = IF Threw(ret') = ""
                                THEN withInstanceId(ws, message.instance.instanceId)
                                ELSE extensions
          [] message.type = "heartbeat" ->
               /\ IF conn.instanceId # "" THEN updateHeartbeat(conn.instanceId)
                  ELSE registryIdle([op |-> "handleExtensionMessage"])
               /\ UNCHANGED extensions
          [] message.type = "session_start" ->
               /\ IF conn.instanceId # "" THEN startSession(conn.instanceId, message.session)
                  ELSE registryIdle([op |-> "handleExtensionMessage"])
               /\ UNCHANGED extensions
          [] message.type = "session_update" ->
               /\ updateSession(message.session.sessionId, message.session)
               /\ UNCHANGED extensions
          [] message.type = "session_end" ->
               /\ endSession(message.sessionId)
               /\ UNCHANGED extensions
          [] message.type = "transcript_event" ->
               /\ addTranscriptEvent(message.event)
               /\ UNCHANGED extensions
  /\ sent' = hubSends(notified', ret')
  /\ UNCHANGED <<running, wsState, closeCode, listening, clients, pendingVars, sinceSweep,
                 nextSerial, outcome>>

\* ws.on('close') of a producer socket (websocket.ts:472-478). The handler has no
\* try/catch and the process no uncaughtException handler: what removeInstance
\* throws reaches the event loop and ends the process, with all its sockets.
extensionClose(ws) ==
  /\ wsState[ws] = "open"
  /\ ws \in listening
  /\ IF connOf(ws).instanceId # "" THEN removeInstance(connOf(ws).instanceId)
     ELSE registryIdle([op |-> "close"])
  /\ sent' = hubSends(notified', ret')
  /\ IF Threw(ret') = ""
     THEN /\ extensions' = SelectSeq(extensions, LAMBDA e : e.ws # ws)
          /\ listening' = listening \ {ws}
          /\ wsState' = [wsState EXCEPT ![ws] = "closed"]
          /\ UNCHANGED running
     ELSE \* extensions.delete(conn) is not reached
          /\ running' = FALSE
          /\ listening' = {}
          /\ wsState' = [w \in DOMAIN wsState |->
                           IF wsState[w] = "new" THEN "new" ELSE "closed"]
          /\ UNCHANGED extensions
  /\ UNCHANGED <<closeCode, clients, pendingVars, sinceSweep, nextSerial, outcome>>

(***************************************************************************)
(* The producer's client: packages/extension/src/daemon-client.ts.         *)
(* createDaemonClient keeps ws, reconnectTimeout, connected and            *)
(* allowReconnect in its closure; connect() is async and is suspended at   *)
(* `await probeDaemon()`, so a call is two steps with other callbacks      *)
(* between them.  A socket the client created is one of PeerSockets.       *)
(***************************************************************************)
PeerSockets == 1..MaxSockets
\* `ws = null`, `wsRef.current = null`: no socket
NoSocket == 0
\* API calls of connect() that may be awaiting the probe at the same time
MaxCalls == 2

\* the first socket not created yet, as a set (empty when all are used)
newWebSocket(readyState) ==
  IF \E s \in PeerSockets : readyState[s] = "unused"
  THEN {CHOOSE s \in PeerSockets :
          /\ readyState[s] = "unused"
          /\ \A t \in PeerSockets : readyState[t] = "unused" => s <= t}
  ELSE {}

\* WebSocket.close(): the close event follows later, in a step of its own
ws_close(readyState, s) ==
  [readyState EXCEPT ![s] = IF @ \in {"CONNECTING", "OPEN"} THEN "CLOSING" ELSE @]

\* daemon-client.ts:49-57: the closure's variables; timers counts the pending
\* setTimeout callbacks, probing holds the connect() calls awaiting the probe
\* (by who called), registers counts the register messages sent, and
\* disconnected records that disconnect() was the caller's last call
createDaemonClient ==
  [ws |-> NoSocket,
   readyState |-> [s \in PeerSockets |-> "unused"],
   handlers |-> {},
   reconnectTimeout |-> FALSE,
   timers |-> 0,
   connected |-> FALSE,
   allowReconnect |-> TRUE,
   probing |-> <<>>,
   registers |-> 0,
   disconnected |-> FALSE]

\* daemon-client.ts:80-99
scheduleReconnect(d) ==
  IF ~d.allowReconnect THEN d
  ELSE IF d.reconnectTimeout THEN d
  ELSE [d EXCEPT !.reconnectTimeout = TRUE, !.timers = @ + 1]

\* daemon-client.ts:101-121: connect() up to `await probeDaemon()`
connect(d, caller) ==
  LET allowed == [d EXCEPT !.allowReconnect = TRUE]
      dropped == IF allowed.ws # NoSocket
                 THEN [allowed EXCEPT !.handlers = @ \ {allowed.ws},
                                      !.readyState = ws_close(@, allowed.ws),
                                      !.ws = NoSocket]
                 ELSE allowed
  IN [dropped EXCEPT !.probing = Append(@, caller)]

\* daemon-client.ts:121-136: connect() after the probe; an unreachable daemon
\* throws, and the timer's catch schedules the next attempt (daemon-client.ts:92-97)
connect_afterProbe(d, i, reachable) ==
  LET caller == d.probing[i]
      rest == [d EXCEPT !.probing = SubSeq(@, 1, i - 1) \o SubSeq(@, i + 1, Len(@))]
  IN IF ~reachable
     THEN IF caller = "timer" THEN scheduleReconnect(rest) ELSE rest
     ELSE LET s == CHOOSE s \in newWebSocket(d.readyState) : TRUE
          IN [rest EXCEPT !.ws = s, !.readyState[s] = "CONNECTING",
                          !.handlers = @ \cup {s}]

\* daemon-client.ts:138-162: the 'open' handler; send() writes to the socket
\* in ws, and only if that one is open (daemon-client.ts:74-78)
onOpen(d, s) ==
  LET opened == [d EXCEPT !.readyState[s] = "OPEN"]
  IN IF s \notin d.handlers THEN opened
     ELSE [opened EXCEPT !.connected = TRUE,
                         !.registers = IF opened.ws # NoSocket /\ opened.readyState[opened.ws] = "OPEN"
                                       THEN @ + 1 ELSE @]

\* daemon-client.ts:245-261: the 'close' handler (after 'error' on a failed
\* handshake, whose rejection reaches the same scheduleReconnect)
onClose(d, s) ==
  LET closed == [d EXCEPT !.readyState[s] = "CLOSED"]
  IN IF s \notin d.handlers THEN closed
     ELSE scheduleReconnect([closed EXCEPT !.connected = FALSE])

\* daemon-client.ts:272-287
disconnect(d) ==
  LET timer == IF d.reconnectTimeout
               THEN [d EXCEPT !.reconnectTimeout = FALSE,
                              !.timers = IF @ > 0 THEN @ - 1 ELSE @]
               ELSE d
      socket == IF timer.ws # NoSocket
                THEN [timer EXCEPT !.readyState = ws_close(@, timer.ws), !.ws = NoSocket]
                ELSE timer
  IN [socket EXCEPT !.allowReconnect = FALSE, !.connected = FALSE]

(***************************************************************************)
(* The dashboard's hook: useWebSocket (src/unnamed/part_000).  Its refs    *)
(* are wsRef and reconnectTimeoutRef; a socket's onopen and onclose stay   *)
(* attached for the socket's whole life.  The token is in localStorage.    *)
(* The heartbeat timers only ever call close() on the current socket; the  *)
(* close of a socket by either side is the environment's step here.        *)
(***************************************************************************)
\* part_000:18-24: the refs and the state of the hook before its effect ran;
\* timers counts the pending reconnect timers, unmounted is set by the cleanup
useWebSocket ==
  [wsRef |-> NoSocket,
   readyState |-> [s \in PeerSockets |-> "unused"],
   reconnectTimeoutRef |-> FALSE,
   timers |-> 0,
   isConnected |-> FALSE,
   mounted |-> FALSE,
   unmounted |-> FALSE]

\* part_000:38-51 (the reconnect timer; clearTimeout of a fired timer does nothing)
clearTimers(h) ==
  IF h.reconnectTimeoutRef
  THEN [h EXCEPT !.reconnectTimeoutRef = FALSE, !.timers = IF @ > 0 THEN @ - 1 ELSE @]
  ELSE h

\* part_000:69-83: connect() returns early only while the current socket is connecting
useWebSocket_connects(h) ==
  ~(h.wsRef # NoSocket /\ h.readyState[h.wsRef] = "CONNECTING")

useWebSocket_connect(h) ==
  IF ~useWebSocket_connects(h) THEN h
  ELSE LET ws == CHOOSE s \in newWebSocket(h.readyState) : TRUE
       IN [h EXCEPT !.wsRef = ws, !.readyState[ws] = "CONNECTING"]

\* part_000:84-89
useWebSocket_onopen(h, s) ==
  [h EXCEPT !.readyState[s] = "OPEN", !.isConnected = TRUE]

\* part_000:113-130: onclose of any socket the hook created
useWebSocket_onclose(h, s) ==
  LET cleared == clearTimers([h EXCEPT !.readyState[s] = "CLOSED", !.isConnected = FALSE])
  IN [cleared EXCEPT !.wsRef = NoSocket, !.reconnectTimeoutRef = TRUE, !.timers = @ + 1]

\* part_000:137-142
useWebSocket_disconnect(h) ==
  LET cleared == clearTimers(h)
  IN [cleared EXCEPT !.readyState = IF cleared.wsRef # NoSocket
                                     THEN ws_close(@, cleared.wsRef) ELSE @,
                     !.wsRef = NoSocket,
                     !.isConnected = FALSE]

\* part_000:151-155
useWebSocket_reconnect(h) ==
  useWebSocket_connect(useWebSocket_disconnect(h))

Init ==
  /\ instances = <<>>
  /\ sessions = EmptyMap
  /\ sessionOrder = <<>>
  /\ transcripts = EmptyMap
  /\ seenSourceIds = EmptyMap
  /\ sessionsFile = <<>>
  /\ transcriptFiles = EmptyMap
  /\ writable = TRUE
  /\ nextEventId = 1
  /\ restarts = 0
  /\ notified = <<>>
  /\ ret = [op |-> "create"]
  /\ acceptedSrc = {}
  /\ running = TRUE
  /\ wsState = [c \in ClientConns \cup ExtConns \cup RemoteConns |-> "new"]
  /\ closeCode = [c \in ClientConns \cup ExtConns \cup RemoteConns |-> 0]
  /\ listening = {}
  /\ clients = <<>>
  /\ extensions = <<>>
  /\ pendingMessageRequests = <<>>
  /\ pendingEnabledModelsRequests = <<>>
  /\ pendingCreateChatRequests = <<>>
  /\ sinceSweep = 0
  /\ sent = <<>>
  /\ nextSerial = 1
  /\ outcome = [n \in 1..MaxRequests |-> <<>>]
  /\ daemonClient = createDaemonClient
  /\ dashboard = useWebSocket

Statuses == {"active", "idle", "error"}

\* the partial sessions a session_update carries
Updates(s) ==
  {[sessionId |-> s, status |-> "error"], [sessionId |-> s, title |-> "t2"]}

RegisterInstance ==
  \E i \in InstanceIds :
    running /\ registerInstance([instanceId |-> i]) /\ UNCHANGED <<restarts, hubVars, peerVars>>

UpdateHeartbeat ==
  \E i \in InstanceIds :
    running /\ updateHeartbeat(i) /\ UNCHANGED <<restarts, hubVars, peerVars>>

RemoveInstance ==
  \E i \in InstanceIds :
    running /\ removeInstance(i) /\ UNCHANGED <<restarts, hubVars, peerVars>>

StartSession ==
  \E i \in InstanceIds, s \in SessionIds, t \in Titles :
    /\ running
    /\ startSession(i, [sessionId |-> s, title |-> t, status |-> "active"])
    /\ UNCHANGED <<restarts, hubVars, peerVars>>

UpdateSession ==
  \E s \in SessionIds : \E u \in Updates(s) :
    running /\ updateSession(s, u) /\ UNCHANGED <<restarts, hubVars, peerVars>>

EndSession ==
  \E s \in SessionIds :
    running /\ endSession(s) /\ UNCHANGED <<restarts, hubVars, peerVars>>

AddTranscriptEvent ==
  \E s \in SessionIds, x \in SubmittedSourceIds :
    /\ running
    /\ addTranscriptEvent([sessionId |-> s, sourceId |-> x])
    /\ UNCHANGED <<restarts, hubVars, peerVars>>

\* the daemon process ends and a new one is started on the same data directory
\* the process exits and starts again: every socket of the old process is gone,
\* createWebSocketManager starts empty, the Registry is rebuilt from the log
Restart ==
  /\ restarts < MaxRestarts
  /\ restarts' = restarts + 1
  /\ createInstanceRegistry
  /\ notified' = <<>>
  /\ ret' = [op |-> "create"]
  /\ acceptedSrc' = {}
  /\ running' = TRUE
  /\ wsState' = [w \in DOMAIN wsState |-> IF wsState[w] = "new" THEN "new" ELSE "closed"]
  /\ listening' = {}
  /\ clients' = <<>>
  /\ extensions' = <<>>
  /\ pendingMessageRequests' = <<>>
  /\ pendingEnabledModelsRequests' = <<>>
  /\ pendingCreateChatRequests' = <<>>
  /\ sinceSweep' = 0
  /\ sent' = <<>>
  /\ UNCHANGED <<logVars, nextEventId, closeCode, nextSerial, outcome, peerVars>>

Next ==
  \/ RegisterInstance
  \/ UpdateHeartbeat
  \/ RemoveInstance
  \/ StartSession
  \/ UpdateSession
  \/ EndSession
  \/ AddTranscriptEvent
  \/ Restart

Spec == Init /\ [][Next]_vars

(***************************************************************************)
(* The hub's steps: one per connection event, frame or timer.              *)
(***************************************************************************)
\* the session ids a consumer can name: those of producers and the keys of a reload
SubscribableIds == SessionIds \cup {getTranscriptFile(s) : s \in SessionIds}

ClientConnect ==
  \E ws \in ClientConns, token \in Tokens :
    handleClientConnection(ws, token) /\ UNCHANGED <<restarts, peerVars>>

ClientClose ==
  \E ws \in ClientConns : clientClose(ws) /\ UNCHANGED <<restarts, peerVars>>

ClientUnheard ==
  \E ws \in ClientConns : unheardMessage(ws) /\ UNCHANGED <<restarts, peerVars>>

ClientSubscription ==
  \E ws \in ClientConns :
    \E message \in {[type |-> "ping"]}
                   \cup {[type |-> t, sessionId |-> s] :
                           t \in {"subscribe_session", "unsubscribe_session"},
                           s \in SubscribableIds} :
      handleClientMessage(ws, message) /\ UNCHANGED <<restarts, peerVars>>

ExtensionConnect ==
  \E ws \in ExtConns : handleExtensionConnection(ws) /\ UNCHANGED <<restarts, peerVars>>

ExtensionClose ==
  \E ws \in ExtConns : extensionClose(ws) /\ UNCHANGED <<restarts, peerVars>>

ExtensionRegister ==
  \E ws \in ExtConns, i \in InstanceIds :
    /\ handleExtensionMessage(ws, [type |-> "register", instance |-> [instanceId |-> i]])
    /\ UNCHANGED <<restarts, peerVars>>

ExtensionTranscriptEvent ==
  \E ws \in ExtConns, s \in SessionIds :
    /\ handleExtensionMessage(ws, [type |-> "transcript_event",
                                   event |-> [sessionId |-> s, sourceId |-> ""]])
    /\ UNCHANGED <<restarts, peerVars>>

\* publish/subscribe: producers submit events, consumers subscribe to sessions
NextHub ==
  \/ ClientConnect
  \/ ClientClose
  \/ ClientUnheard
  \/ ClientSubscription
  \/ ExtensionConnect
  \/ ExtensionClose
  \/ ExtensionTranscriptEvent
  \/ Restart

SpecHub == Init /\ [][NextHub]_vars

\* a consumer presenting the daemon's token connects
AuthenticatedConnect ==
  \E ws \in ClientConns : handleClientConnection(ws, currentToken) /\ UNCHANGED <<restarts, peerVars>>

\* a producer announces the instance the control requests are aimed at
ControlRegister ==
  \E ws \in ExtConns :
    /\ handleExtensionMessage(ws, [type |-> "register",
                                   instance |-> [instanceId |-> "i1"]])
    /\ UNCHANGED <<restarts, peerVars>>

\* a control request whose id is not that of a pending request of its type
ControlRequest ==
  \E ws \in ClientConns, kind \in ControlKinds, i \in InstanceIds, r \in RequestIds :
    /\ ~pendingHas(pendingOf(kind), r)
    /\ controlRequest(ws, kind, i, r)
    /\ UNCHANGED <<restarts, peerVars>>

ExtensionResult ==
  \E ws \in ExtConns, kind \in ControlKinds, r \in RequestIds, success \in BOOLEAN :
    controlResult(ws, kind, r, success) /\ UNCHANGED <<restarts, peerVars>>

Sweep == sweep /\ UNCHANGED <<restarts, peerVars>>

Tick == tick /\ UNCHANGED <<restarts, peerVars>>

\* remote control: consumers issue requests, producers reply, the sweep times out
NextControl ==
  \/ AuthenticatedConnect
  \/ ClientClose
  \/ ControlRequest
  \/ ExtensionConnect
  \/ ExtensionClose
  \/ ControlRegister
  \/ ExtensionResult
  \/ Tick
  \/ Sweep

SpecControl == Init /\ [][NextControl]_vars

ClientSendMessage ==
  \E ws \in ClientConns, s \in SessionIds :
    /\ handleClientMessage(ws, [type |-> "send_message", sessionId |-> s])
    /\ UNCHANGED <<restarts, peerVars>>

\* a producer starts a session of the instance it registered
ExtensionSessionStart ==
  \E ws \in ExtConns, s \in SessionIds :
    /\ handleExtensionMessage(ws, [type |-> "session_start",
                                   session |-> [sessionId |-> s, title |-> "t1",
                                                status |-> "active"]])
    /\ UNCHANGED <<restarts, peerVars>>

ExtensionMessageResult ==
  \E ws \in ExtConns, r \in RequestIds, s \in SessionIds, success \in BOOLEAN :
    sendMessageResult(ws, r, s, success) /\ UNCHANGED <<restarts, peerVars>>

\* the disabled action: consumers ask to send a message into a session
NextSendMessage ==
  \/ AuthenticatedConnect
  \/ ClientClose
  \/ ClientSendMessage
  \/ ExtensionConnect
  \/ ExtensionClose
  \/ ControlRegister
  \/ ExtensionSessionStart
  \/ ExtensionMessageResult
  \/ Tick
  \/ Sweep

SpecSendMessage == Init /\ [][NextSendMessage]_vars

\* a producer result for a request id that is not pending (already timed out, or unknown)
LateResult ==
  \E ws \in ExtConns, kind \in ControlKinds, r \in RequestIds, success \in BOOLEAN :
    /\ ~pendingHas(pendingOf(kind), r)
    /\ controlResult(ws, kind, r, success)
    /\ UNCHANGED <<restarts, peerVars>>

\* remote control when no producer answers a pending request; the consumers stay
NextTimeout ==
  \/ AuthenticatedConnect
  \/ ControlRequest
  \/ ExtensionConnect
  \/ ExtensionClose
  \/ ControlRegister
  \/ LateResult
  \/ Tick
  \/ Sweep

\* setInterval keeps firing and the clock keeps advancing
SpecTimeout == Init /\ [][NextTimeout]_vars /\ WF_vars(Tick) /\ WF_vars(Sweep)

\* the peer of a consumer socket goes away; the close event of the socket has
\* not run yet, so the hub still holds the connection
socketLost(ws) ==
  /\ wsState[ws] = "open"
  /\ ws \in listening
  /\ wsState' = [wsState EXCEPT ![ws] = "closing"]
  /\ sent' = <<>>
  /\ registryIdle([op |-> "socketLost"])
  /\ UNCHANGED <<running, closeCode, listening, clients, extensions, pendingVars,
                 sinceSweep, nextSerial, outcome>>

ClientGone ==
  \E ws \in ClientConns : socketLost(ws) /\ UNCHANGED <<restarts, peerVars>>

\* a consumer subscribes to the first session or to the global stream
ClientSubscribe ==
  \E ws \in ClientConns :
    \E message \in {[type |-> "subscribe_instances"],
                    [type |-> "subscribe_session", sessionId |-> <<"a">>]} :
      handleClientMessage(ws, message) /\ UNCHANGED <<restarts, peerVars>>

\* broadcasts to consumers some of which have left
NextBroadcast ==
  \/ AuthenticatedConnect
  \/ ClientSubscribe
  \/ ClientGone
  \/ ClientClose
  \/ ExtensionConnect
  \/ ExtensionTranscriptEvent

SpecBroadcast == Init /\ [][NextBroadcast]_vars

\* a consumer subscribes to the global stream of instances and sessions
ClientSubscribeInstances ==
  \E ws \in ClientConns :
    handleClientMessage(ws, [type |-> "subscribe_instances"]) /\ UNCHANGED <<restarts, peerVars>>

\* session changes of a producer while consumers of the global stream leave
NextListener ==
  \/ AuthenticatedConnect
  \/ ClientSubscribeInstances
  \/ ClientGone
  \/ ExtensionConnect
  \/ ControlRegister
  \/ ExtensionSessionStart
  \/ ExtensionClose

SpecListener == Init /\ [][NextListener]_vars

\* the data directory stops accepting appends (disk full, permissions)
diskFails ==
  /\ writable
  /\ writable' = FALSE
  /\ ret' = [op |-> "diskFails"]
  /\ notified' = <<>>
  /\ sent' = <<>>
  /\ UNCHANGED <<registryVars, sessionsFile, transcriptFiles, nextEventId, acceptedSrc,
                 connVars, pendingVars, sinceSweep, nextSerial, outcome>>

DiskFails == diskFails /\ UNCHANGED <<restarts, peerVars>>

\* a producer submits an event of the first session
ExtensionEvent ==
  \E ws \in ExtConns :
    /\ handleExtensionMessage(ws, [type |-> "transcript_event",
                                   event |-> [sessionId |-> <<"a">>, sourceId |-> ""]])
    /\ UNCHANGED <<restarts, peerVars>>

\* a consumer subscribes to the first session
ClientSubscribeSession ==
  \E ws \in ClientConns :
    /\ handleClientMessage(ws, [type |-> "subscribe_session", sessionId |-> <<"a">>])
    /\ UNCHANGED <<restarts, peerVars>>

\* producers and consumers at work while appends to the log fail
NextDisk ==
  \/ AuthenticatedConnect
  \/ ClientSubscribeSession
  \/ ExtensionConnect
  \/ ControlRegister
  \/ ExtensionSessionStart
  \/ ExtensionEvent
  \/ ExtensionClose
  \/ DiskFails

SpecDisk == Init /\ [][NextDisk]_vars

\* what a process killed in the middle of appendFileSync leaves in the file
tornAppend(lines) ==
  IF lines # <<>> /\ lines[Len(lines)] = TornLine THEN lines ELSE Append(lines, TornLine)

\* the process is killed while it appends to sessions.jsonl (file = <<>>) or to
\* the transcript file of that name: the memory of the process is lost
killedInAppend(file) ==
  /\ running
  /\ LogRecords < MaxLogRecords
  /\ IF file = <<>>
     THEN sessionsFile' = tornAppend(sessionsFile) /\ UNCHANGED transcriptFiles
     ELSE /\ transcriptFiles' =
               MapSet(transcriptFiles, file, tornAppend(MapGet(transcriptFiles, file, <<>>)))
          /\ UNCHANGED sessionsFile
  /\ running' = FALSE
  /\ listening' = {}
  /\ wsState' = [w \in DOMAIN wsState |-> IF wsState[w] = "new" THEN "new" ELSE "closed"]
  /\ ret' = [op |-> "killedInAppend"]
  /\ notified' = <<>>
  /\ sent' = <<>>
  /\ UNCHANGED <<registryVars, writable, nextEventId, acceptedSrc, closeCode, clients,
                 extensions, pendingVars, sinceSweep, nextSerial, outcome>>

KilledInAppend ==
  \E file \in {<<>>} \cup {getTranscriptFile(s) : s \in SessionIds} :
    killedInAppend(file) /\ UNCHANGED <<restarts, peerVars>>

\* the Registry over a log that a killed process left with a torn line
NextTorn ==
  \/ StartSession
  \/ EndSession
  \/ AddTranscriptEvent
  \/ KilledInAppend
  \/ Restart

SpecTorn == Init /\ [][NextTorn]_vars

\* the fan-out of the changes of one producer to the consumers
NextFanout ==
  \/ ClientConnect
  \/ ClientSubscribe
  \/ ExtensionConnect
  \/ ControlRegister
  \/ ExtensionSessionStart
  \/ ExtensionEvent
  \/ ExtensionClose

SpecFanout == Init /\ [][NextFanout]_vars

\* the sockets that reach the /ws/extension route
ProducerConns == ExtConns \cup RemoteConns

ExtensionRoute ==
  \E ws \in ProducerConns : \E remoteAddress \in AddressesOf(ws) :
    extensionRoute(ws, remoteAddress) /\ UNCHANGED <<restarts, peerVars>>

\* frames and the close of the sockets of the route, local or not
ProducerRegister ==
  \E ws \in ProducerConns :
    /\ handleExtensionMessage(ws, [type |-> "register",
                                   instance |-> [instanceId |-> "i1"]])
    /\ UNCHANGED <<restarts, peerVars>>

ProducerResult ==
  \E ws \in ProducerConns, kind \in ControlKinds, r \in RequestIds :
    controlResult(ws, kind, r, TRUE) /\ UNCHANGED <<restarts, peerVars>>

ProducerUnheard ==
  \E ws \in ProducerConns : unheardMessage(ws) /\ UNCHANGED <<restarts, peerVars>>

ProducerClose ==
  \E ws \in ProducerConns : extensionClose(ws) /\ UNCHANGED <<restarts, peerVars>>

\* producers from the local host and from elsewhere, and consumers with requests
NextRoute ==
  \/ AuthenticatedConnect
  \/ ControlRequest
  \/ ExtensionRoute
  \/ ProducerRegister
  \/ ProducerResult
  \/ ProducerUnheard
  \/ ProducerClose

SpecRoute == Init /\ [][NextRoute]_vars

\* session messages of producers, for sessions of any instance
ExtensionSessionUpdate ==
  \E ws \in ExtConns, s \in SessionIds : \E u \in Updates(s) :
    /\ handleExtensionMessage(ws, [type |-> "session_update", session |-> u])
    /\ UNCHANGED <<restarts, peerVars>>

ExtensionSessionEnd ==
  \E ws \in ExtConns, s \in SessionIds :
    /\ handleExtensionMessage(ws, [type |-> "session_end", sessionId |-> s])
    /\ UNCHANGED <<restarts, peerVars>>

\* two producers, each with instances and sessions of its own
NextOwner ==
  \/ ExtensionConnect
  \/ ExtensionRegister
  \/ ExtensionSessionStart
  \/ ExtensionSessionUpdate
  \/ ExtensionSessionEnd

SpecOwner == Init /\ [][NextOwner]_vars

\* producers that register instances and leave, watched by consumers
NextRegister ==
  \/ AuthenticatedConnect
  \/ ClientSubscribeInstances
  \/ ExtensionConnect
  \/ ExtensionRegister
  \/ ExtensionClose

SpecRegister == Init /\ [][NextRegister]_vars

\* the messages consumers send, and a message of a type the daemon does not know
ClientMessages ==
  {[type |-> t] : t \in {"subscribe_instances", "unsubscribe_instances", "ping", "hello"}}
    \cup {[type |-> t, sessionId |-> <<"a">>] :
            t \in {"subscribe_session", "unsubscribe_session", "send_message"}}
    \cup {[type |-> "get_enabled_models", instanceId |-> "i1", requestId |-> "r1"]}

\* the frames of consumers: JSON texts of messages and of null, and broken text
Payloads == {[raw |-> "{"], [json |-> Null]} \cup {[json |-> m] : m \in ClientMessages}

ClientFrame ==
  \E ws \in ClientConns, data \in Payloads : clientMessage(ws, data) /\ UNCHANGED <<restarts, peerVars>>

\* consumers that send frames of every kind
NextFrame ==
  \/ AuthenticatedConnect
  \/ ClientFrame
  \/ ClientClose
  \/ ExtensionConnect
  \/ ControlRegister

SpecFrame == Init /\ [][NextFrame]_vars

\* a consumer asks the registered instance for its models
EnabledModelsRequest ==
  \E ws \in ClientConns, r \in RequestIds :
    /\ ~pendingHas(pendingEnabledModelsRequests, r)
    /\ controlRequest(ws, "get_enabled_models", "i1", r)
    /\ UNCHANGED <<restarts, peerVars>>

\* a consumer issues that request under the id of a request still pending
EnabledModelsReissue ==
  \E ws \in ClientConns, r \in RequestIds :
    /\ pendingHas(pendingEnabledModelsRequests, r)
    /\ controlRequest(ws, "get_enabled_models", "i1", r)
    /\ UNCHANGED <<restarts, peerVars>>

\* control requests with request ids that are used twice, and the sweep
NextReissue ==
  \/ AuthenticatedConnect
  \/ ExtensionConnect
  \/ ControlRegister
  \/ EnabledModelsRequest
  \/ EnabledModelsReissue
  \/ Tick
  \/ Sweep

SpecReissue == Init /\ [][NextReissue]_vars /\ WF_vars(Tick) /\ WF_vars(Sweep)

\* the data directory accepts appends again (space was freed)
diskRecovers ==
  /\ ~writable
  /\ writable' = TRUE
  /\ ret' = [op |-> "diskRecovers"]
  /\ notified' = <<>>
  /\ sent' = <<>>
  /\ UNCHANGED <<registryVars, sessionsFile, transcriptFiles, nextEventId, acceptedSrc,
                 connVars, pendingVars, sinceSweep, nextSerial, outcome>>

DiskRecovers == diskRecovers /\ UNCHANGED <<restarts, peerVars>>

\* submissions and resubmissions while appends fail for a while
NextRetry ==
  \/ AddTranscriptEvent
  \/ DiskFails
  \/ DiskRecovers

SpecRetry == Init /\ [][NextRetry]_vars

\* the cursors of readers: none, the ids handed out, and an id never handed out
Cursors == {NoCursor} \cup (1..(MaxLogRecords + 1))

GetTranscriptEvents ==
  \E s \in SessionIds, e \in Cursors :
    /\ running
    /\ readTranscriptEvents(s, e)
    /\ UNCHANGED <<restarts, hubVars, peerVars>>

\* submissions, and readers that page through the transcripts
NextCursor ==
  \/ AddTranscriptEvent
  \/ GetTranscriptEvents

SpecCursor == Init /\ [][NextCursor]_vars

\* a producer with sessions, and restarts of the daemon over its log
NextReplay ==
  \/ ExtensionConnect
  \/ ControlRegister
  \/ ExtensionSessionStart
  \/ ExtensionClose
  \/ Restart

SpecReplay == Init /\ [][NextReplay]_vars

\* the peer of a producer socket has left and the close event has not run yet
ProducerGone ==
  \E ws \in ExtConns : socketLost(ws) /\ UNCHANGED <<restarts, peerVars>>

\* control requests for a producer whose socket may be gone, and the sweep
NextForward ==
  \/ AuthenticatedConnect
  \/ ExtensionConnect
  \/ ControlRegister
  \/ ProducerGone
  \/ ControlRequest
  \/ Tick
  \/ Sweep

SpecForward == Init /\ [][NextForward]_vars

(***************************************************************************)
(* The producer's client against a daemon that comes and goes: the calls   *)
(* of its owner (connect, disconnect), the probe's answer, the socket's    *)
(* events and the reconnect timer, each one callback of the event loop.    *)
(***************************************************************************)
daemonVars == <<registryVars, logVars, nextEventId, restarts, notified, ret, acceptedSrc, hubVars>>

\* the owner calls connect(): daemon-client.ts:101-121, up to the await
DaemonClientConnect ==
  /\ Len(daemonClient.probing) < MaxCalls
  /\ daemonClient' = [connect(daemonClient, "api") EXCEPT !.disconnected = FALSE]
  /\ UNCHANGED <<daemonVars, dashboard>>

\* probeDaemon() resolves for one of the suspended connect() calls
ProbeDaemon ==
  \E i \in 1..Len(daemonClient.probing), reachable \in BOOLEAN :
    /\ reachable => newWebSocket(daemonClient.readyState) # {}
    /\ daemonClient' = connect_afterProbe(daemonClient, i, reachable)
    /\ UNCHANGED <<daemonVars, dashboard>>

\* the handshake of a connecting socket completes: 'open'
DaemonClientOpen ==
  \E s \in PeerSockets :
    /\ daemonClient.readyState[s] = "CONNECTING"
    /\ daemonClient' = onOpen(daemonClient, s)
    /\ UNCHANGED <<daemonVars, dashboard>>

\* a socket is closed (the daemon went away, the handshake failed, or the
\* close() the client called completed): 'close'
DaemonClientClose ==
  \E s \in PeerSockets :
    /\ daemonClient.readyState[s] \in {"CONNECTING", "OPEN", "CLOSING"}
    /\ daemonClient' = onClose(daemonClient, s)
    /\ UNCHANGED <<daemonVars, dashboard>>

\* daemon-client.ts:89-98: the reconnect timer fires and calls connect()
ReconnectTimer ==
  /\ daemonClient.timers > 0
  /\ daemonClient' = connect([daemonClient EXCEPT !.reconnectTimeout = FALSE,
                                                  !.timers = @ - 1], "timer")
  /\ UNCHANGED <<daemonVars, dashboard>>

\* the owner calls disconnect(): daemon-client.ts:272-287
DaemonClientDisconnect ==
  /\ daemonClient' = [disconnect(daemonClient) EXCEPT !.disconnected = TRUE]
  /\ UNCHANGED <<daemonVars, dashboard>>

NextClient ==
  \/ DaemonClientConnect
  \/ ProbeDaemon
  \/ DaemonClientOpen
  \/ DaemonClientClose
  \/ ReconnectTimer
  \/ DaemonClientDisconnect

SpecClient == Init /\ [][NextClient]_vars

(***************************************************************************)
(* The dashboard's hook in a page: the effect's mount and cleanup, the     *)
(* user's retry, the sockets' events and the reconnect timer.              *)
(***************************************************************************)
\* connect() either returns early or has a socket left to create
canConnect(h) == useWebSocket_connects(h) => newWebSocket(h.readyState) # {}

\* part_000:157-160: the effect runs connect() on mount
UseWebSocketMount ==
  /\ ~dashboard.mounted /\ ~dashboard.unmounted
  /\ canConnect(dashboard)
  /\ dashboard' = [useWebSocket_connect(dashboard) EXCEPT !.mounted = TRUE]
  /\ UNCHANGED <<daemonVars, daemonClient>>

\* part_000:159: the effect's cleanup runs disconnect() on unmount
UseWebSocketUnmount ==
  /\ dashboard.mounted
  /\ dashboard' = [useWebSocket_disconnect(dashboard) EXCEPT !.mounted = FALSE,
                                                             !.unmounted = TRUE]
  /\ UNCHANGED <<daemonVars, daemonClient>>

\* part_000:151-155: the user clicks retry
UseWebSocketReconnect ==
  /\ dashboard.mounted
  /\ newWebSocket(dashboard.readyState) # {}
  /\ dashboard' = useWebSocket_reconnect(dashboard)
  /\ UNCHANGED <<daemonVars, daemonClient>>

\* the handshake of a connecting socket completes: onopen
UseWebSocketOpen ==
  \E s \in PeerSockets :
    /\ dashboard.readyState[s] = "CONNECTING"
    /\ dashboard' = useWebSocket_onopen(dashboard, s)
    /\ UNCHANGED <<daemonVars, daemonClient>>

\* a socket is closed, by the daemon or after close(): onclose
UseWebSocketClose ==
  \E s \in PeerSockets :
    /\ dashboard.readyState[s] \in {"CONNECTING", "OPEN", "CLOSING"}
    /\ dashboard' = useWebSocket_onclose(dashboard, s)
    /\ UNCHANGED <<daemonVars, daemonClient>>

\* part_000:127-129: the reconnect timer fires and calls connect()
UseWebSocketTimer ==
  /\ dashboard.timers > 0
  /\ canConnect(dashboard)
  /\ dashboard' = useWebSocket_connect([dashboard EXCEPT !.timers = @ - 1])
  /\ UNCHANGED <<daemonVars, daemonClient>>

NextDashboard ==
  \/ UseWebSocketMount
  \/ UseWebSocketUnmount
  \/ UseWebSocketReconnect
  \/ UseWebSocketOpen
  \/ UseWebSocketClose
  \/ UseWebSocketTimer

SpecDashboard == Init /\ [][NextDashboard]_vars

(***************************************************************************)
(* Claims about the State Registry and the Durable Log.                    *)
(***************************************************************************)
Min(a, b) == IF a < b THEN a ELSE b

LastN(seq, n) == SubSeq(seq, Len(seq) - n + 1, Len(seq))

IsPrefix(p, q) == Len(p) <= Len(q) /\ SubSeq(q, 1, Len(p)) = p

IsSuffix(p, q) == Len(p) <= Len(q) /\ LastN(q, Len(p)) = p

\* the step is a call of addTranscriptEvent that returned an event
AcceptedStep == ret'.op = "addTranscriptEvent" /\ ret'.result # <<>>

RestartStep == restarts' = restarts + 1

\* C1: once this Registry has accepted an event for (S, x), every later
\* addTranscriptEvent for (S, x) returns null, and leaves the in-memory
\* transcripts and the durable log unchanged and notifies no listener,
\* whatever happened in between (eviction of the original event included).
C1_DuplicateIsNoOp ==
  [][(/\ ret'.op = "addTranscriptEvent"
      /\ <<ret'.sessionId, ret'.sourceId>> \in acceptedSrc)
       => /\ ret'.result = <<>>
          /\ transcripts' = transcripts
          /\ seenSourceIds' = seenSourceIds
          /\ transcriptFiles' = transcriptFiles
          /\ sessionsFile' = sessionsFile
          /\ notified' = <<>>]_vars

\* a resubmission was rejected although its original event has been evicted
C1_Witness ==
  /\ ret.op = "addTranscriptEvent"
  /\ ret.result = <<>>
  /\ <<ret.sessionId, ret.sourceId>> \in acceptedSrc
  /\ ret.sourceId \notin SourceIdsOf(getTranscriptEvents(ret.sessionId))
  /\ Len(getTranscriptEvents(ret.sessionId)) = MAX_EVENTS_PER_SESSION

\* C7: a Registry constructed from the log (restart and replay) holds the same
\* sessions with the same fields and, for every session id, the same
\* transcript list as the old Registry held immediately before the restart.
C7_ReplayEquivalence ==
  [][RestartStep =>
       /\ sessions' = sessions
       /\ \A s \in SessionIds : getTranscriptEvents(s)' = getTranscriptEvents(s)]_vars

\* C8: an accepted submission leaves min(n + 1, max) events in memory, namely
\* the most recent ones (oldest evicted first), and appends exactly that event
\* to the session's log; no step removes or rewrites a log record, and the
\* in-memory window of every session is the tail of that session's log.
C8_BoundedRetention ==
  /\ [][\A s \in SessionIds : (AcceptedStep /\ ret'.sessionId = s) =>
          LET e == ret'.result[1]
              before == getTranscriptEvents(s)
              after == getTranscriptEvents(s)'
              f == getTranscriptFile(s)
          IN /\ Len(after) = Min(Len(before) + 1, MAX_EVENTS_PER_SESSION)
             /\ after = LastN(Append(before, e), Len(after))
             /\ transcriptFiles'[f] = Append(MapGet(transcriptFiles, f, <<>>), e)]_vars
  /\ [][/\ IsPrefix(sessionsFile, sessionsFile')
        /\ \A f \in DOMAIN transcriptFiles :
             /\ f \in DOMAIN transcriptFiles'
             /\ IsPrefix(transcriptFiles[f], transcriptFiles'[f])]_vars
  /\ [](\A s \in SessionIds :
          IsSuffix(getTranscriptEvents(s), MapGet(transcriptFiles, getTranscriptFile(s), <<>>)))

\* max+1 events were submitted to one session: max are in memory, all in the log
C8_Witness ==
  \E s \in SessionIds :
    /\ ret.op = "addTranscriptEvent" /\ ret.result # <<>> /\ ret.sessionId = s
    /\ restarts = 0
    /\ Len(getTranscriptEvents(s)) = MAX_EVENTS_PER_SESSION
    /\ Len(transcriptFiles[getTranscriptFile(s)]) = MAX_EVENTS_PER_SESSION + 1
    /\ getTranscriptEvents(s) = Tail(transcriptFiles[getTranscriptFile(s)])

\* C9: below the retention bound every accepted submission extends
\* getTranscriptEvents(S) by exactly one event, the submitted one, at the end;
\* a rejected submission and every operation on other sessions leave it as it
\* is, and for a started session so does every other Registry operation.
C9_SubmissionOrder ==
  [][\A s \in SessionIds :
       LET before == getTranscriptEvents(s)
           after == getTranscriptEvents(s)'
       IN IF AcceptedStep /\ ret'.sessionId = s
          THEN Len(before) < MAX_EVENTS_PER_SESSION =>
                 /\ after = Append(before, ret'.result[1])
                 /\ ret'.result[1].sessionId = s
                 /\ ret'.result[1].sourceId = ret'.sourceId
                 /\ \A i \in DOMAIN before : before[i].eventId # ret'.result[1].eventId
          ELSE (s \in DOMAIN sessions /\ ~RestartStep) => after = before]_vars

\* a started session holds two events with distinct source ids, in submission order
C9_Witness ==
  \E s \in DOMAIN sessions :
    /\ restarts = 0
    /\ Len(getTranscriptEvents(s)) = 2
    /\ getTranscriptEvents(s)[1].sourceId = "x"
    /\ getTranscriptEvents(s)[2].sourceId = "y"
    /\ getTranscriptEvents(s)[1].eventId < getTranscriptEvents(s)[2].eventId

\* the number of start records of session s in sessions.jsonl
NumStartRecords(file, s) ==
  Cardinality({i \in DOMAIN file :
                 file[i].action = "start" /\ file[i].session.sessionId = s})

\* C10: startSession with a known session id sets that session active and
\* owned by the caller, keeps every other field (createdAt, title), its
\* transcript and all other sessions, and adds no session and no second start
\* record; with an unknown id it adds exactly one fresh record.
C10_Reactivation ==
  [][\A s \in SessionIds : (ret'.op = "startSession" /\ ret'.sessionId = s) =>
       LET others == DOMAIN sessions \ {s}
       IN /\ \A o \in others : o \in DOMAIN sessions' /\ sessions'[o] = sessions[o]
          /\ sessions'[s].status = "active"
          /\ sessions'[s].instanceId = ret'.instanceId
          /\ IF s \in DOMAIN sessions
             THEN /\ DOMAIN sessions' = DOMAIN sessions
                  /\ sessions'[s].createdAt = sessions[s].createdAt
                  /\ sessions'[s].title = sessions[s].title
                  /\ getTranscriptEvents(s)' = getTranscriptEvents(s)
                  /\ NumStartRecords(sessionsFile', s) = NumStartRecords(sessionsFile, s)
             ELSE /\ DOMAIN sessions' = DOMAIN sessions \cup {s}
                  /\ Cardinality(DOMAIN sessions') = Cardinality(DOMAIN sessions) + 1
                  /\ sessions'[s].createdAt = Now
                  /\ NumStartRecords(sessionsFile', s) = 1]_vars

\* a session known from persisted history, idle, was restarted by another instance
C10_Witness ==
  /\ ret.op = "startSession"
  /\ restarts = 1
  /\ Len(sessionsFile) = 3
  /\ sessionsFile[1].action = "start"
  /\ sessionsFile[2].action = "end"
  /\ sessionsFile[3].action = "update"
  /\ sessionsFile[3].sessionId = sessionsFile[1].session.sessionId
  /\ sessionsFile[3].updates = [status |-> "active", instanceId |-> ret.instanceId]
  /\ sessionsFile[1].session.instanceId # ret.instanceId
  /\ Cardinality(DOMAIN sessions) = 1

(***************************************************************************)
(* Claims about remote-control correlation (Connection Hub).               *)
(***************************************************************************)
\* every Pending Request of the two control maps
PendingAll == pendingEnabledModelsRequests \o pendingCreateChatRequests

\* the request that was issued as the n-th is still pending
IsPending(n) == \E i \in DOMAIN PendingAll : PendingAll[i].serial = n

\* the sends of the last step that carry a control result for request id r of a kind
ResultsFor(kind, r) ==
  SelectSeq(sent, LAMBDA m : m.msg.type = ResultType(kind) /\ m.msg.requestId = r)

\* the sends of the last step that go to a consumer connection
ToConsumers == SelectSeq(sent, LAMBDA m : m.to \in ClientConns)

\* C2: a control request against an instance with an open producer connection is
\* recorded for the consumer that issued it and forwarded; while the record is
\* pending it keeps its issuer; and when the producer's result with that request id
\* arrives before the sweep has removed the record, exactly one message is sent to a
\* consumer: the result, carrying that request id, to the issuer of the request and
\* to no other consumer, and the Pending Request no longer exists afterwards.
C2_RequestCorrelation ==
  /\ [][\A kind \in ControlKinds, r \in RequestIds :
          (/\ ret'.op = "controlRequest" /\ ret'.type = kind /\ ret'.requestId = r
           /\ targetExtension(ret'.instanceId) # <<>>)
            => /\ pendingHas(pendingOf(kind)', r)
               /\ pendingGet(pendingOf(kind), r)'.clientWs = ret'.ws
               /\ pendingGet(pendingOf(kind), r)'.serial = nextSerial]_vars
  /\ [][\A kind \in ControlKinds, r \in RequestIds :
          (pendingHas(pendingOf(kind), r) /\ pendingHas(pendingOf(kind)', r))
            => /\ pendingGet(pendingOf(kind), r)'.clientWs
                    = pendingGet(pendingOf(kind), r).clientWs
               /\ pendingGet(pendingOf(kind), r)'.serial
                    = pendingGet(pendingOf(kind), r).serial]_vars
  /\ [][\A kind \in ControlKinds, r \in RequestIds :
          (/\ ret'.op = "controlResult" /\ ret'.type = kind /\ ret'.requestId = r
           /\ pendingHas(pendingOf(kind), r))
            => /\ Len(ToConsumers') = 1
               /\ Len(ResultsFor(kind, r)') = 1
               /\ ResultsFor(kind, r)'[1].to = pendingGet(pendingOf(kind), r).clientWs
               /\ ResultsFor(kind, r)'[1].msg.error # "Request timed out"
               /\ ~pendingHas(pendingOf(kind)', r)
               /\ outcome'[pendingGet(pendingOf(kind), r).serial] = <<"reply">>]_vars

\* two consumers are connected, one of them issued a request and the producer's
\* result for it has just been forwarded
C2_Witness ==
  /\ ret.op = "controlResult"
  /\ Len(clients) = 2
  /\ Len(ToConsumers) = 1
  /\ ToConsumers[1].msg.requestId = ret.requestId
  /\ \E n \in 1..MaxRequests : outcome[n] = <<"reply">>
  /\ PendingAll = <<>>

\* C4: each Pending Request is destroyed exactly once: a request that was forwarded
\* is either still pending and unresolved, or gone and resolved by exactly one of
\* reply and timeout; a resolution happens only in a step that removes the record,
\* and the results sent to consumers in a step are exactly those resolutions, so no
\* request gets both a forwarded reply and a timeout failure.
C4_DestroyedOnce ==
  /\ [](\A n \in 1..MaxRequests :
          /\ Len(outcome[n]) <= 1
          /\ IsPending(n) => (n < nextSerial /\ outcome[n] = <<>>)
          /\ (n < nextSerial /\ ~IsPending(n)) => Len(outcome[n]) = 1
          /\ n >= nextSerial => outcome[n] = <<>>)
  /\ [][\A n \in 1..MaxRequests :
          outcome'[n] # outcome[n] => (IsPending(n) /\ ~IsPending(n)')]_vars
  /\ [][ret'.op \in {"controlResult", "sweep"} =>
          Len(ToConsumers') =
            Cardinality({n \in 1..MaxRequests : outcome'[n] # outcome[n]})]_vars

\* one request was answered by its producer and another one was timed out
C4_Witness ==
  \E n, m \in 1..MaxRequests : outcome[n] = <<"reply">> /\ outcome[m] = <<"timeout">>

\* C3: a forwarded control request that no producer answers is eventually resolved
\* by the timeout, also when its target producer disconnects meanwhile; the timeout
\* resolves it once; it is resolved only by a sweep, only when the record is older
\* than the timeout, with exactly one failure result sent to the issuer, and the
\* record is then gone; a producer result whose request id is not pending sends
\* nothing and changes nothing.
C3_RequestTimeout ==
  /\ \A n \in 1..MaxRequests : IsPending(n) ~> (outcome[n] = <<"timeout">>)
  /\ [](\A n \in 1..MaxRequests : Len(outcome[n]) <= 1)
  /\ [][\A n \in 1..MaxRequests, kind \in ControlKinds, r \in RequestIds,
           c \in ClientConns :
          (/\ outcome'[n] # outcome[n]
           /\ pendingHas(pendingOf(kind), r)
           /\ pendingGet(pendingOf(kind), r).serial = n
           /\ pendingGet(pendingOf(kind), r).clientWs = c)
            => /\ ret'.op = "sweep"
               /\ pendingGet(pendingOf(kind), r).age > REQUEST_TIMEOUT_MS
               /\ Len(ResultsFor(kind, r)') = 1
               /\ ResultsFor(kind, r)'[1].to = c
               /\ ResultsFor(kind, r)'[1].msg.success = FALSE
               /\ ResultsFor(kind, r)'[1].msg.error = "Request timed out"
               /\ ~IsPending(n)']_vars
  /\ [][\A kind \in ControlKinds, r \in RequestIds :
          (/\ ret'.op = "controlResult" /\ ret'.type = kind /\ ret'.requestId = r
           /\ ~pendingHas(pendingOf(kind), r))
            => /\ sent' = <<>>
               /\ UNCHANGED <<registryVars, logVars, pendingVars, connVars, outcome,
                              nextSerial, sinceSweep>>]_vars

\* the target producer is gone, the request was timed out by the sweep, and a
\* result for a request id that is not pending has just been dropped
C3_Witness ==
  /\ ret.op = "controlResult"
  /\ sent = <<>>
  /\ nextSerial = 2
  /\ outcome[1] = <<"timeout">>
  /\ \A i \in InstanceIds : targetExtension(i) = <<>>

(***************************************************************************)
(* Claims about subscriptions and authentication (Connection Hub).         *)
(***************************************************************************)
\* C5: every transcript_event the hub sends, live or as the replay of a
\* subscription, goes to a consumer connection whose own session subscription set
\* contains the session id the event carries.
C5_SubscriptionIsolation ==
  \A i \in DOMAIN sent :
    sent[i].msg.type = "transcript_event" =>
      \E j \in DOMAIN clients :
        /\ clients[j].ws = sent[i].to
        /\ sent[i].msg.event.sessionId \in clients[j].subscribedSessions

\* a connection whose token failed validation
Rejected(ws) == closeCode[ws] = 4001

\* C6: a consumer connection whose token is not the daemon's token gets, at the
\* connect step, exactly one error message and is closed with code 4001; from then
\* on it is never in the client set, has no message handler, is sent nothing more,
\* and a frame arriving on a connection without handler changes nothing.
C6_Unauthenticated ==
  /\ [][\A ws \in ClientConns :
          (/\ ret'.op = "handleClientConnection" /\ ret'.ws = ws
           /\ ret'.token # currentToken)
            => /\ Len(sent') = 1
               /\ sent'[1].to = ws
               /\ sent'[1].msg.type = "error"
               /\ wsState'[ws] = "closing"
               /\ closeCode'[ws] = 4001 /\ closeCode[ws] # 4001
               /\ clients' = clients]_vars
  /\ [](\A ws \in ClientConns :
          Rejected(ws) => /\ \A j \in DOMAIN clients : clients[j].ws # ws
                          /\ ws \notin listening
                          /\ wsState[ws] \in {"closing", "closed"})
  /\ [][\A ws \in ClientConns :
          Rejected(ws) => /\ Rejected(ws)'
                          /\ \A i \in DOMAIN sent' : sent'[i].to # ws]_vars
  /\ [][ret'.op = "unheard" =>
          /\ sent' = <<>>
          /\ UNCHANGED <<registryVars, logVars, connVars, pendingVars>>]_vars

\* after a connection was rejected, a frame it sent was ignored, and later a
\* subscriber of a session was sent one of its events
C6_Witness ==
  /\ \E ws \in ClientConns : Rejected(ws) /\ wsState[ws] = "closing"
  /\ Len(sent) = 1
  /\ sent[1].msg.type = "transcript_event"
  /\ ret.op = "addTranscriptEvent"

(***************************************************************************)
(* Claims about removeInstance and the control requests' error paths.      *)
(***************************************************************************)
\* the sessions owned by instance i that are active
ActiveOf(i) ==
  {s \in DOMAIN sessions : sessions[s].instanceId = i /\ sessions[s].status = "active"}

\* C11: removeInstance(I) of a registered instance I turns idle exactly the active
\* sessions owned by I and changes no other session; for each of them it notifies
\* the session listeners once and appends one end record, and it notifies and
\* appends nothing else about sessions; I leaves the instance map, the other
\* instances stay, and the instance listeners get one disconnect for I.
C11_RemoveInstanceFrame ==
  [][\A i \in InstanceIds :
       (ret'.op = "removeInstance" /\ InSeq(i, instances) /\ ~InSeq(i, instances'))
         => LET hit == ActiveOf(i)
                added == SubSeq(sessionsFile', Len(sessionsFile) + 1, Len(sessionsFile'))
                calls == SelectSeq(notified', LAMBDA n : n.listener = "session")
            IN /\ DOMAIN sessions' = DOMAIN sessions
               /\ \A s \in DOMAIN sessions :
                    sessions'[s] = IF s \in hit THEN [sessions[s] EXCEPT !.status = "idle"]
                                   ELSE sessions[s]
               /\ IsPrefix(sessionsFile, sessionsFile')
               /\ Len(added) = Cardinality(hit)
               /\ \A s \in hit :
                    \E k \in DOMAIN added : added[k] = [action |-> "end", sessionId |-> s]
               /\ Len(calls) = Cardinality(hit)
               /\ \A s \in hit :
                    \E k \in DOMAIN calls : /\ calls[k].type = "end"
                                            /\ calls[k].session = sessions'[s]
               /\ notified'[Len(notified')] =
                    [listener |-> "instance", type |-> "disconnect", instanceId |-> i]
               /\ Len(notified') = Len(calls) + 1
               /\ instances' = SelectSeq(instances, LAMBDA x : x # i)
               /\ UNCHANGED <<sessionOrder, transcripts, seenSourceIds, transcriptFiles>>]_vars

\* an instance with two active sessions was removed: both are idle now, two session
\* listeners calls and two end records were made
C11_Witness ==
  /\ ret.op = "removeInstance"
  /\ Len(notified) = 3
  /\ Cardinality(DOMAIN sessions) = 2
  /\ \A s \in DOMAIN sessions : sessions[s].status = "idle"
  /\ Len(sessionsFile) = 4
  /\ sessionsFile[3].action = "end" /\ sessionsFile[4].action = "end"

\* an open producer connection remembers instance id i
Remembered(i) ==
  \E k \in DOMAIN extensions :
    extensions[k].instanceId = i /\ wsState[extensions[k].ws] = "open"

\* C12: a control request naming an instance that no open producer connection
\* remembers is answered in the same step with exactly one message, a failure
\* result carrying the request id, sent to the requesting consumer; no Pending
\* Request is created or changed and nothing is sent to a producer.
C12_TargetUnavailable ==
  [][(ret'.op = "controlRequest" /\ ~Remembered(ret'.instanceId))
       => /\ Len(sent') = 1
          /\ sent'[1].to = ret'.ws
          /\ sent'[1].msg.type = ResultType(ret'.type)
          /\ sent'[1].msg.requestId = ret'.requestId
          /\ sent'[1].msg.success = FALSE
          /\ UNCHANGED <<pendingVars, nextSerial, outcome, connVars>>]_vars

\* a producer is connected for another instance, a request for an instance without
\* producer was just refused, and nothing is pending
C12_Witness ==
  /\ ret.op = "controlRequest"
  /\ ~Remembered(ret.instanceId)
  /\ \E i \in InstanceIds : Remembered(i)
  /\ Len(sent) = 1
  /\ sent[1].to = ret.ws
  /\ sent[1].msg.success = FALSE
  /\ PendingAll = <<>>

C14_SendFailureIsolated ==
  [][(notified' # <<>>)
       => /\ \A k \in DOMAIN hubListeners(notified') :
               ~gone(hubListeners(notified')[k].to)
                 => \E j \in DOMAIN sent' : sent'[j] = hubListeners(notified')[k]
          /\ Threw(ret') = ""]_vars

\* C15: a listener that throws does not corrupt the mutation that called it: a
\* session operation that changed a session appends its record, and
\* removeInstance turns every active session of the instance idle, appends one
\* end record for each and calls the disconnect listeners last.
C15_ListenerFailureIsolated ==
  [][/\ (ret'.op \in {"startSession", "updateSession", "endSession"} /\ notified' # <<>>)
          => Len(sessionsFile') = Len(sessionsFile) + 1
     /\ \A i \in InstanceIds :
          (ret'.op = "removeInstance" /\ InSeq(i, instances) /\ ~InSeq(i, instances'))
            => /\ \A s \in ActiveOf(i) : sessions'[s].status = "idle"
               /\ Len(sessionsFile') = Len(sessionsFile) + Cardinality(ActiveOf(i))
               /\ notified'[Len(notified')].listener = "instance"]_vars

\* C16: an append to the log that fails neither blocks the broadcast nor ends
\* the process: an event accepted while the log cannot be written is still sent
\* to every subscriber of its session, and a producer close whose end record
\* cannot be written leaves the process running and the connection out of the
\* hub's set.
C16_WriteFailureTolerated ==
  [][~writable
       => /\ (ret'.op = "addTranscriptEvent" /\ ret'.result # <<>>)
               => \A i \in DOMAIN clients :
                    (clients[i].authenticated
                       /\ ret'.sessionId \in clients[i].subscribedSessions)
                      => \E j \in DOMAIN sent' :
                           sent'[j] = [to |-> clients[i].ws,
                                       msg |-> [type |-> "transcript_event",
                                                event |-> ret'.result[1]]]
          /\ ret'.op = "removeInstance"
               => /\ running'
                  /\ \A ws \in ExtConns :
                       (wsState[ws] = "open" /\ wsState'[ws] = "closed")
                         => \A k \in DOMAIN extensions' : extensions'[k].ws # ws]_vars

\* the lines of a file that are records
GoodLines(lines) == SelectSeq(lines, LAMBDA l : "corrupt" \notin DOMAIN l)

\* C17: a line that fails to parse does not abort the load: the sessions and
\* the transcripts a new Registry starts with are the in-order replay of all
\* the other lines, so that the records written before the corrupt line are
\* recovered.
C17_CorruptLineSkipped ==
  [][RestartStep
       => /\ sessions' = replaySessions(EmptyMap, GoodLines(sessionsFile))
          /\ sessionOrder' = replayOrder(<<>>, GoodLines(sessionsFile))
          /\ \A f \in DOMAIN transcriptFiles :
               IF GoodLines(transcriptFiles[f]) = <<>> THEN f \notin DOMAIN transcripts'
               ELSE f \in DOMAIN transcripts'
                      /\ transcripts'[f] = GoodLines(transcriptFiles[f])]_vars

\* a Registry that started from a log whose last line is torn, with the session
\* and the event written before the torn lines
C17_Witness ==
  /\ restarts = 1
  /\ ret.op = "create"
  /\ Len(sessionsFile) = 2 /\ sessionsFile[2] = TornLine
  /\ DOMAIN sessions = {sessionsFile[1].session.sessionId}
  /\ \E f \in DOMAIN transcriptFiles :
       /\ Len(transcriptFiles[f]) = 1
       /\ f \in DOMAIN transcripts /\ transcripts[f] = transcriptFiles[f]

(***************************************************************************)
(* Claims about the fan-out and the subscriptions.                         *)
(***************************************************************************)
\* socket ws is an authenticated consumer of cs holding the global subscription
Global(cs, ws) ==
  \E i \in DOMAIN cs : cs[i].ws = ws /\ cs[i].authenticated /\ cs[i].subscribedInstances

\* socket ws is an authenticated consumer of cs subscribed to session s
Subscribed(cs, ws, s) ==
  \E i \in DOMAIN cs : cs[i].ws = ws /\ cs[i].authenticated /\ s \in cs[i].subscribedSessions

HasSubscription(cs, ws) ==
  \E i \in DOMAIN cs :
    cs[i].ws = ws /\ (cs[i].subscribedInstances \/ cs[i].subscribedSessions # {})

\* msg is the message of the change the Registry notified with n
Announces(msg, n) ==
  CASE n.listener = "instance" ->
         msg = [type |-> IF n.type = "disconnect" THEN "instance_disconnect"
                         ELSE "instance_update",
                instanceId |-> n.instanceId]
    [] n.listener = "session" -> msg = [type |-> "session_update", session |-> n.session]
    [] n.listener = "transcript" -> msg = [type |-> "transcript_event", event |-> n.event]

\* C18: an instance change is sent to exactly the authenticated consumers with
\* the global subscription; a session change to exactly those with the global
\* subscription or a subscription to that session; nothing else is sent in the
\* step; and no instance_update, instance_disconnect, session_update or
\* transcript_event ever goes to a connection without a subscription.
C18_FanOut ==
  [][/\ \A k \in DOMAIN notified' : \A ws \in ClientConns \cup ExtConns :
          LET n == notified'[k]
              got == \E j \in DOMAIN sent' : sent'[j].to = ws /\ Announces(sent'[j].msg, n)
          IN CASE n.listener = "instance" -> got <=> Global(clients, ws)
               [] n.listener = "session" ->
                    got <=> (Global(clients, ws)
                               \/ Subscribed(clients, ws, n.session.sessionId))
               [] OTHER -> TRUE
     /\ notified' # <<>>
          => \A j \in DOMAIN sent' :
               \E k \in DOMAIN notified' : Announces(sent'[j].msg, notified'[k])
     /\ \A j \in DOMAIN sent' :
          sent'[j].msg.type \in {"instance_update", "instance_disconnect",
                                 "session_update", "transcript_event"}
            => HasSubscription(clients', sent'[j].to)]_vars

\* a session change reached the consumer of the global stream and the consumer
\* of that session, once each, while a producer connection got nothing
C18_Witness ==
  /\ ret.op = "startSession"
  /\ Len(notified) = 1
  /\ Len(sent) = 2
  /\ sent[1].to # sent[2].to
  /\ \E j \in 1..2 : /\ Global(clients, sent[j].to)
                     /\ ~Subscribed(clients, sent[j].to, ret.sessionId)
  /\ \E j \in 1..2 : /\ Subscribed(clients, sent[j].to, ret.sessionId)
                     /\ ~Global(clients, sent[j].to)

\* the transcript_event messages for events, in order, on socket ws
Replay(ws, events) ==
  [i \in DOMAIN events |-> [to |-> ws, msg |-> [type |-> "transcript_event",
                                                event |-> events[i]]]]

\* C19: subscribe_session(S) of a consumer not yet subscribed to S sends that
\* connection, and nobody else, the current in-memory transcript of S in order;
\* every event accepted for S afterwards joins the end of that transcript and
\* is sent exactly once to every consumer subscribed to S at that moment, and
\* to nobody else; no step but these two kinds sends a transcript event, and a
\* subscription ends only by unsubscribe_session, by the close of the socket
\* or with the process.
C19_ReplayThenLive ==
  [][/\ \A ws \in ClientConns, S \in SubscribableIds :
          (~Subscribed(clients, ws, S) /\ Subscribed(clients', ws, S))
            => sent' = Replay(ws, MapGet(transcripts, S, <<>>))
     /\ (ret'.op = "addTranscriptEvent" /\ ret'.result # <<>>)
          => LET e == ret'.result[1]
                 live == [type |-> "transcript_event", event |-> e]
             IN /\ transcripts'[e.sessionId][Len(transcripts'[e.sessionId])] = e
                /\ \A j \in DOMAIN sent' : sent'[j].msg = live
                /\ \A ws \in ClientConns \cup ExtConns :
                     Cardinality({j \in DOMAIN sent' : sent'[j].to = ws})
                       = IF Subscribed(clients, ws, e.sessionId) THEN 1 ELSE 0
     /\ (\E j \in DOMAIN sent' : sent'[j].msg.type = "transcript_event")
          => \/ ret'.op = "addTranscriptEvent"
             \/ ret'.op = "handleClientMessage" /\ ret'.type = "subscribe_session"
     /\ \A ws \in ClientConns, S \in SubscribableIds :
          (Subscribed(clients, ws, S) /\ ~Subscribed(clients', ws, S))
            => \/ ret'.op = "handleClientMessage" /\ ret'.type = "unsubscribe_session"
               \/ ret'.op = "close"
               \/ RestartStep]_vars

\* a consumer that subscribed to a session with two events got both, oldest first
C19_Witness ==
  /\ ret.op = "handleClientMessage"
  /\ ret.type = "subscribe_session"
  /\ Len(sent) = 2
  /\ \E S \in SessionIds :
       /\ Subscribed(clients, sent[1].to, S)
       /\ sent = Replay(sent[1].to, transcripts[S])
       /\ transcripts[S][1].eventId < transcripts[S][2].eventId

(***************************************************************************)
(* Claims about the origin of producer connections.                        *)
(***************************************************************************)
\* C20: a producer connection from an address that is not loopback is closed
\* with code 4003 when it arrives and never becomes a connection of the hub:
\* its socket gets no handlers and no ExtensionConnection, so that its frames
\* change neither the Registry nor a pending request, and nothing is ever sent
\* to it, a forwarded command included.
C20_LoopbackOnly ==
  [][/\ \A ws \in RemoteConns :
          /\ (wsState[ws] = "new" /\ wsState'[ws] # "new")
               => wsState'[ws] = "closing" /\ closeCode'[ws] = 4003
          /\ ws \notin listening'
          /\ \A k \in DOMAIN extensions' : extensions'[k].ws # ws
          /\ \A j \in DOMAIN sent' : sent'[j].to # ws
     /\ ret'.op = "unheard"
          => UNCHANGED <<registryVars, logVars, pendingVars, extensions, outcome>>]_vars

\* the producer from elsewhere was turned away and then sent a frame, while a
\* local producer is registered and a request of a consumer is pending
C20_Witness ==
  /\ \E ws \in RemoteConns : closeCode[ws] = 4003 /\ wsState[ws] = "closing"
  /\ \A ws \in ExtConns : wsState[ws] # "closing"
  /\ ret.op = "unheard"
  /\ \E k \in DOMAIN extensions : extensions[k].instanceId = "i1"
  /\ PendingAll # <<>>

(***************************************************************************)
(* Claims about who may act on a request, a session or an instance.        *)
(***************************************************************************)
\* C21: a pending request for instance X is resolved only by a result that
\* arrives on the producer connection registered as X: while no connection is
\* registered as X, every result comes from some other connection, so a result
\* that names the request leaves its record pending and sends nothing.
C21_OnlyTargetResolves ==
  [][\A kind \in ControlKinds :
       (/\ ret'.op = "controlResult"
        /\ ret'.type = kind
        /\ pendingHas(pendingOf(kind), ret'.requestId)
        /\ targetExtension(pendingGet(pendingOf(kind), ret'.requestId).instanceId) = <<>>)
         => /\ UNCHANGED pendingVars
            /\ sent' = <<>>]_vars

\* C22: a session_update or session_end message that arrives on a producer
\* connection leaves every session unchanged that is not owned by the instance
\* registered on that connection.
C22_OnlyOwnerMutates ==
  [][\A ws \in ExtConns, s \in SessionIds :
       (/\ s \in DOMAIN sessions
        /\ \/ handleExtensionMessage(ws, [type |-> "session_end", sessionId |-> s])
           \/ \E u \in Updates(s) :
                handleExtensionMessage(ws, [type |-> "session_update", session |-> u])
        /\ sessions[s].instanceId # connOf(ws).instanceId)
         => sessions'[s] = sessions[s]]_vars

\* C23: no instance stays registered after the connection that registered it is
\* gone: when no producer connection is left, the Registry holds no instance.
C23_NoInstanceOutlivesConnection ==
  extensions = <<>> => instances = <<>>

(***************************************************************************)
(* Claims about the order of events and of the log.                        *)
(***************************************************************************)
\* C24: the transcript_event messages a call of addTranscriptEvent sends carry
\* the event accepted by that call, whose id is newer than the id of every event
\* accepted before, one message per consumer; as ids are handed out in the order
\* of acceptance and never again, a subscribed consumer receives the events of
\* a session in the order of their acceptance, whoever submitted them and
\* whatever other sessions received in between.
C24_LiveInAcceptanceOrder ==
  [][/\ nextEventId' >= nextEventId
     /\ ret'.op = "addTranscriptEvent"
          => /\ \A j \in DOMAIN sent' :
                  /\ sent'[j].msg.type = "transcript_event"
                  /\ sent'[j].msg.event.eventId = nextEventId
                  /\ sent'[j].msg.event.sessionId = ret'.sessionId
                  /\ nextEventId' = nextEventId + 1
                  /\ Subscribed(clients, sent'[j].to, ret'.sessionId)
             /\ \A i, j \in DOMAIN sent' : sent'[i].to = sent'[j].to => i = j
             /\ \A S \in DOMAIN transcripts : \A k \in DOMAIN transcripts[S] :
                  transcripts[S][k].eventId < nextEventId]_vars

\* a consumer of the first session receives that session's second event, the
\* third accepted overall: an event of the other session came in between
C24_Witness ==
  /\ ret.op = "addTranscriptEvent"
  /\ ret.sessionId = <<"a">>
  /\ \E j \in DOMAIN sent : sent[j].msg.event.eventId = 3
  /\ <<"a">> \in DOMAIN transcripts
  /\ [k \in DOMAIN transcripts[<<"a">>] |-> transcripts[<<"a">>][k].eventId] = <<1, 3>>
  /\ \E S \in DOMAIN transcripts : S # <<"a">> /\ transcripts[S] # <<>>

\* the source ids of the events of session S that a replay reads from S's log
LoggedSourceIds(S) ==
  LET events == loadTranscriptEvents(getTranscriptFile(S))
  IN {events[k].sourceId : k \in {i \in DOMAIN events : events[i].sessionId = S}} \ {""}

\* C25: after a restart, a submission for (S, x) with x a source id of an event
\* in S's transcript log is rejected, whether the event is still in memory or
\* had been evicted before the restart.
C25_IndexCompleteAfterRestart ==
  [][(/\ restarts > 0
      /\ ret'.op = "addTranscriptEvent"
      /\ ret'.sourceId \in LoggedSourceIds(ret'.sessionId))
        => ret'.result = <<>>]_vars

\* the records of the transcript file of session S
LogOf(S) == MapGet(transcriptFiles, getTranscriptFile(S), <<>>)

\* C26: addTranscriptEvent persists before it notifies: every transcript_event
\* its listeners sent is a record of the session's log, and a call whose append
\* failed has notified no listener and sent nothing.
C26_PersistedBeforeBroadcast ==
  ret.op = "addTranscriptEvent"
    => /\ \A k \in DOMAIN notified : InSeq(notified[k].event, LogOf(ret.sessionId))
       /\ \A j \in DOMAIN sent :
            /\ sent[j].msg.type = "transcript_event"
            /\ InSeq(sent[j].msg.event, LogOf(sent[j].msg.event.sessionId))
       /\ Threw(ret) = "append" => notified = <<>> /\ sent = <<>>

\* the second event of a session has reached a subscribed consumer and is the
\* last record of the session's log
C26_Witness ==
  /\ ret.op = "addTranscriptEvent"
  /\ Threw(ret) = ""
  /\ sent # <<>>
  /\ Len(LogOf(ret.sessionId)) = 2
  /\ LogOf(ret.sessionId)[2] = sent[1].msg.event

(***************************************************************************)
(* Claims about frames that are no messages.                               *)
(***************************************************************************)
InvalidMessageFormat == [type |-> "error", message |-> "Invalid message format"]

\* the frame is the JSON text of a message
IsMessage(data) == "json" \in DOMAIN data /\ "type" \in DOMAIN data.json

C28_ReplacedStillAnswered ==
  \A ws \in ClientConns, r \in RequestIds :
    (/\ pendingHas(pendingEnabledModelsRequests, r)
     /\ pendingGet(pendingEnabledModelsRequests, r).clientWs = ws)
      ~> (\E j \in DOMAIN sent :
            /\ sent[j].to = ws
            /\ sent[j].msg = [type |-> "enabled_models_result", requestId |-> r,
                              success |-> FALSE, error |-> "Request timed out"])

\* C29: each session's in-memory transcript holds at most the fixed maximum of
\* events, also right after the replay of a log that holds more.
C29_TranscriptBounded ==
  \A S \in DOMAIN transcripts : Len(transcripts[S]) <= MAX_EVENTS_PER_SESSION

\* the events accepted for session S so far, in the order of acceptance
AcceptedFor(S) == SelectSeq(readLines(LogOf(S)), LAMBDA e : e.sessionId = S)

\* C30: within one process lifetime the in-memory transcript of a session is the
\* last min(n, max) of the n events accepted for it, in acceptance order,
\* whatever session and instance operations ran in between.
C30_WindowOfAccepted ==
  restarts = 0
    => \A S \in SessionIds :
         MapGet(transcripts, S, <<>>)
           = LastN(AcceptedFor(S), Min(Len(AcceptedFor(S)), MAX_EVENTS_PER_SESSION))

(***************************************************************************)
(* Claims about the index of source ids and about torn lines.              *)
(***************************************************************************)
\* C31: every source id in the deduplication index of a session is the source
\* id of an event in that session's log: a submission whose append failed is
\* not remembered as seen.
C31_SeenIsLogged ==
  \A S \in DOMAIN seenSourceIds : seenSourceIds[S] \subseteq LoggedSourceIds(S)

\* C32: a record whose append completed is read back by every later load, also
\* when the file ended in a torn line: the event an accepted submission has
\* appended is among the lines of its session's file that a load returns.
C32_AppendedIsLoaded ==
  [][AcceptedStep
       => InSeq(ret'.result[1],
                readLines(MapGet(transcriptFiles', getTranscriptFile(ret'.sessionId), <<>>)))]_vars

(***************************************************************************)
(* Claims about reading the transcript with a cursor.                      *)
(***************************************************************************)
\* C33: getTranscriptEvents(S, e) returns the events that follow event e in
\* the in-memory transcript of S, in order; the whole transcript when e is not
\* in it (never handed out, or evicted) and when there is no cursor; and the
\* call changes no state.
C33_CursorRead ==
  [][ret'.op = "getTranscriptEvents"
       => LET window == MapGet(transcripts, ret'.sessionId, <<>>)
              e == ret'.afterEventId
          IN /\ \A k \in DOMAIN window :
                  (e # NoCursor /\ window[k].eventId = e)
                    => ret'.result = [j \in 1..(Len(window) - k) |-> window[k + j]]
             /\ (e = NoCursor \/ \A k \in DOMAIN window : window[k].eventId # e)
                  => ret'.result = window
             /\ UNCHANGED <<registryVars, logVars, nextEventId>>]_vars

\* the first event was evicted; a read after the older of the two events left
\* returned the newest event only
C33_Witness ==
  /\ ret.op = "getTranscriptEvents"
  /\ Len(MapGet(transcripts, ret.sessionId, <<>>)) = 2
  /\ Len(LogOf(ret.sessionId)) = 3
  /\ ret.afterEventId = transcripts[ret.sessionId][1].eventId
  /\ ret.result = <<transcripts[ret.sessionId][2]>>

(***************************************************************************)
(* Claims about producers that reconnect and about active sessions.        *)
(***************************************************************************)
\* C34: while a producer connection that registered instance X is open, X is in
\* the Registry, whatever other producer connections that registered X do.
C34_RegisteredWhileOpen ==
  \A k \in DOMAIN extensions :
    (extensions[k].instanceId # "" /\ wsState[extensions[k].ws] = "open")
      => InSeq(extensions[k].instanceId, instances)

\* C35: each session whose status is active is owned by an instance that is in
\* the Registry, also right after the replay of the log at startup.
C35_ActiveHasInstance ==
  \A s \in DOMAIN sessions :
    sessions[s].status = "active" => InSeq(sessions[s].instanceId, instances)

(***************************************************************************)
(* Claims about duplicates and about forwards that fail.                   *)
(***************************************************************************)
\* C36: for the session changes the Registry notifies in a step, a consumer
\* receives at most one session_update per change, also when it is subscribed
\* to the global stream and to that session.
C36_SessionUpdateOnce ==
  [][notified' # <<>>
       => \A ws \in ClientConns :
            Cardinality({j \in DOMAIN sent' :
                           sent'[j].to = ws /\ sent'[j].msg.type = "session_update"})
              <= Cardinality({k \in DOMAIN notified' : notified'[k].listener = "session"})]_vars

\* C37: when the forward of a control request to its producer throws, no record
\* with that request id is pending afterwards and the requester, and nobody
\* else, is sent exactly one failure result for the id; and every failure the
\* sweep sends is for a record that was pending, so it sends none for that
\* request.
C37_ForwardFailure ==
  [][/\ (ret'.op = "controlRequest" /\ Threw(ret') = "send")
          => /\ \A kind \in ControlKinds :
                  ret'.type = kind => ~pendingHas(pendingOf(kind)', ret'.requestId)
             /\ Len(sent') = 1
             /\ sent'[1].to = ret'.ws
             /\ sent'[1].msg.type = ResultType(ret'.type)
             /\ sent'[1].msg.requestId = ret'.requestId
             /\ sent'[1].msg.success = FALSE
     /\ ret'.op = "sweep"
          => \A j \in DOMAIN sent' :
               \E kind \in ControlKinds :
                 /\ sent'[j].msg.type = ResultType(kind)
                 /\ pendingHas(pendingOf(kind), sent'[j].msg.requestId)
                 /\ pendingGet(pendingOf(kind), sent'[j].msg.requestId).clientWs = sent'[j].to
                 /\ ~pendingHas(pendingOf(kind)', sent'[j].msg.requestId)]_vars

\* the producer of i1 has left; a request for i1 failed at the forward and its
\* requester was told, while an earlier request is still pending
C37_Witness ==
  /\ ret.op = "controlRequest"
  /\ Threw(ret) = "send"
  /\ Len(sent) = 1
  /\ sent[1].to = ret.ws
  /\ sent[1].msg.error = "Failed to forward to extension"
  /\ PendingAll # <<>>
  /\ ~pendingHas(pendingOf(ret.type), ret.requestId)

\* C38: after disconnect() and until the owner calls connect() again, the
\* producer's client is never connected, creates no socket and sends no
\* register message, whatever was pending when disconnect() ran; and at most
\* one reconnect timer is pending at any time.
C38_DisconnectIsFinal ==
  [][/\ daemonClient'.timers <= 1
     /\ daemonClient'.disconnected =>
          /\ ~daemonClient'.connected
          /\ daemonClient.disconnected =>
               /\ daemonClient'.registers = daemonClient.registers
               /\ \A s \in PeerSockets :
                    daemonClient.readyState[s] = "unused" =>
                      daemonClient'.readyState[s] = "unused"]_vars

\* C39: the hook holds at most one open or connecting socket at any time and
\* that socket is the current one (wsRef), also after reconnect() and whenever
\* the old socket's close event arrives; after the unmount's disconnect() no
\* new connection is opened.
C39_OneSocket ==
  [][/\ Cardinality({s \in PeerSockets :
                       dashboard'.readyState[s] \in {"CONNECTING", "OPEN"}}) <= 1
     /\ \A s \in PeerSockets :
          dashboard'.readyState[s] \in {"CONNECTING", "OPEN"} => dashboard'.wsRef = s
     /\ dashboard.unmounted =>
          \A s \in PeerSockets :
            dashboard.readyState[s] = "unused" => dashboard'.readyState[s] = "unused"]_vars

====
